---- MODULE Spec2Model ----
(***************************************************************************)
(* Diaper Defense: the simulation core (ScoreSystem, GameStateManager,     *)
(* PoopPool, the DiaperDefenseEngine tick and the UI shell that starts and *)
(* restarts it) as a state machine.                                        *)
(*                                                                         *)
(* Every handler of the program (an animation frame, a timer callback, a   *)
(* click) is one action.  The synchronous calls a handler makes are        *)
(* operators from "world" records to "world" records, composed in the      *)
(* order of the code.  A world record carries the program state plus two   *)
(* transient fields: ret (the value returned by the last call) and thrown  *)
(* (an exception is propagating).                                          *)
(*                                                                         *)
(* Ghost state (g, log, and the field catches of a projectile) records    *)
(* what happened; no modelled code reads it.                               *)
(***************************************************************************)
EXTENDS Integers, Sequences, FiniteSets, TLC

VARIABLES
  ss,    \* ScoreSystem: score, misses, consecutiveMisses, maxMisses
  gsm,   \* GameStateManager: currentState, previousState, isTransitioning, gameTime, startTime
  cbs,   \* registered callbacks (GameStateManager maps and ScoreSystem lists)
  eng,   \* DiaperDefenseEngine: gameState, isRunning, poops, diaperX
  objs,  \* every Poop instance ever constructed, by identity
  pool,  \* ObjectPool: pool (identities of the retained instances) and maxSize
  ui,    \* UI shell: visible screen and pending showGameOver timeouts
  baby,  \* Baby: shootTimer, shootInterval, gameTime, lastShootRateUpdate
  diaper, \* Diaper: position x and y, targetX, bounds, isActive
  pm,    \* PerformanceManager: qualitySettings, frameTimeHistory, lastQualityAdjustment
  now,   \* Date.now()
  g,     \* ghost: what happened in the current play session
  log,   \* ghost: the calls made by the last handler
  srv,   \* server: the redis keys of the post and the /api/save-score handlers in progress
  hsm    \* HighScoreManager: isInitialized, isSubmittingScore, lastSavedScore, its pending calls

vars == <<ss, gsm, cbs, eng, objs, pool, ui, baby, diaper, pm, now, g, log, srv, hsm>>

-----------------------------------------------------------------------------
(* Program constants *)

REGULAR == "regular"
FANCY == "fancy"
BOOB == "boob"
PoopType == {REGULAR, FANCY, BOOB}
\* PoopType.BOMB is read by the engine but is no member of the enum: the
\* property access evaluates to undefined, which equals no projectile's type.
PoopType_BOMB == "undefined"

START == "start"
PLAY == "play"
GAME_OVER == "game_over"
GameState == {START, PLAY, GAME_OVER}

PointsRegular == 10
PointsFancy == 50
PointsBoob == 0 - 1
DefaultMaxMisses == 2
SceneTop == 300
SceneBottom == 0 - 300
BabyYOffset == 120
ShootYOffset == 30
DiaperYOffset == 60
DiaperWidth == 80
DiaperHeight == 40
PoopWidth == 30
PoopHeight == 30
BaseSpeed == 200
\* opacity starts at 1.0 and loses 0.1 per fade callback; in IEEE doubles the
\* tenth subtraction leaves 1.39e-16 > 0, so "opacity <= 0" first holds after
\* the eleventh.
FadeCallbacksToZero == 11
FadeIntervalMs == 50
PoolMaxSize == 100
SceneLeft == 0 - 400
SceneRight == 400
DiaperMargin == 40
DiaperSpeed == 300
SmoothingFactor == 8
MoveStep == 50
InitialShootInterval == 2000
MinShootInterval == 500
DifficultyPeriod == 15000
MaxHistoryLength == 60
MinHistoryLength == 30
QualityAdjustmentCooldown == 5000

-----------------------------------------------------------------------------
(* Bounds of the model *)

MaxSpawns == 3        \* projectiles shot per play session
MaxEntities == 2      \* stands for qualitySettings.maxEntities
MaxIntervals == 2     \* fade intervals pending on one instance
MaxScore == 10        \* ticks stop once the score exceeds this
PoolInitialSize == 2  \* stands for PoopPool's initialSize (15)
MaxClock == 3         \* Date.now() stops advancing here
MaxPoolCap == 2       \* maxSize of the pool that is driven on its own
MaxObjects == 3       \* instances constructed by that pool
MaxDestroys == 2      \* destroy() calls on the entity that is driven on its own
MaxPeriods == 16      \* 15-second periods of play time of the baby that is driven on its own
MaxBudgetTime == 600  \* ms of play followed from the crowded scene
MaxClicks == 2        \* clicks on a start button whose timeouts are pending
MaxLoopFrames == 4    \* animation frames of the game loop that is driven on its own
MaxRequests == 2      \* /api/save-score requests the server receives
MaxCalls == 3         \* calls of saveCurrentScore that have not returned
MaxPerfSteps == 10    \* half cooldowns that pass on the performance manager's clock

DeltaTimes == {300, 900}   \* frame times in ms: a slow frame and a hitch
BabyXs == {0}              \* horizontal positions of the baby when it shoots
DiaperXs == {0, 60}        \* horizontal positions of the diaper
FallSpeeds == {BaseSpeed}  \* fall speeds drawn at construction/reset
DiaperBobs == {0}          \* vertical bobbing offsets of the diaper

-----------------------------------------------------------------------------
(* World records *)

World ==
  [ss |-> ss, gsm |-> gsm, cbs |-> cbs, eng |-> eng, objs |-> objs, pool |-> pool,
   ui |-> ui, baby |-> baby, diaper |-> diaper, pm |-> pm, now |-> now, g |-> g, log |-> <<>>,
   srv |-> srv, hsm |-> hsm, ret |-> 0, thrown |-> FALSE]

\* State-space reduction: an inactive instance is read only through isActive
\* and its pending fade intervals (update, the collision test, the miss test
\* and the fade callback all return at once on an inactive instance), and
\* Poop.reset overwrites every other field before the instance is used again.
\* Those fields are therefore stored as constructed while it is inactive.
\* The count of dispose() calls is read by no code; it is kept only where an
\* entity is driven on its own.
Forget(o) ==
  IF o.isActive THEN [o EXCEPT !.disposed = 0]
  ELSE [o EXCEPT !.type = REGULAR, !.points = PointsRegular, !.x = 0, !.y = 0,
                 !.fallSpeed = BaseSpeed, !.scale = 100, !.fades = 0, !.disposed = 0]

\* the end of a handler: what it leaves becomes the state
Put(w, instances) ==
  /\ ss' = w.ss
  /\ gsm' = w.gsm
  /\ cbs' = w.cbs
  /\ eng' = w.eng
  /\ objs' = instances
  /\ pool' = w.pool
  /\ ui' = w.ui
  /\ baby' = w.baby
  /\ diaper' = w.diaper
  /\ pm' = w.pm
  /\ now' = w.now
  /\ g' = w.g
  /\ log' = w.log
  /\ srv' = w.srv
  /\ hsm' = w.hsm

Commit(w) == Put(w, [i \in 1..Len(w.objs) |-> Forget(w.objs[i])])

\* the same with the reduction only for instances that the pool does not
\* retain (get() cannot return them): a retained instance keeps every field
\* of its previous life while it is inactive
Store(w) ==
  Put(w, [i \in 1..Len(w.objs) |->
            IF \E k \in 1..Len(w.pool.pool) : w.pool.pool[k] = i
            THEN [w.objs[i] EXCEPT !.disposed = 0] ELSE Forget(w.objs[i])])

\* the same without any reduction
Keep(w) == Put(w, w.objs)

Note(w, e) == [w EXCEPT !.log = Append(@, e)]

AtLeast(floor, v) == IF v < floor THEN floor ELSE v

AtMost(ceiling, v) == IF v > ceiling THEN ceiling ELSE v

Abs(a) == IF a < 0 THEN 0 - a ELSE a

\* ghost: the last three scoring events of the session ("catch" / "miss")
Remember(h, ev) == IF Len(h) < 3 THEN Append(h, ev) ELSE Append(Tail(h), ev)

NewSession ==
  [goFired |-> 0, goMiss |-> 0, hist |-> <<>>, twoInRow |-> FALSE, spawned |-> 0,
   playAt |-> 0, overAt |-> 0, adjustments |-> 0, adjustedAt |-> 0, shown |-> 0]

-----------------------------------------------------------------------------
(* Constructors of the baby, the diaper and the performance manager *)

\* new Baby(...): the shoot timer is shootInterval * (0.5 + Math.random());
\* halves stands for twice that factor
resetShootTimer(b, halves) == [b EXCEPT !.shootTimer = (b.shootInterval * halves) \div 2]

newBaby(halves) ==
  resetShootTimer([shootTimer |-> 0, shootInterval |-> InitialShootInterval,
                   gameTime |-> 0, lastShootRateUpdate |-> 0], halves)

\* new Diaper(scene, x, y, bounds)
newDiaper(x, y, bounds) ==
  [x |-> x, y |-> y, targetX |-> x, bounds |-> bounds, isActive |-> TRUE]

\* the diaper as the engine constructs it
gameDiaper ==
  newDiaper(0, SceneBottom + DiaperYOffset,
            [left |-> SceneLeft + DiaperMargin, right |-> SceneRight - DiaperMargin])

DeviceCapability == [LOW |-> "low", MEDIUM |-> "medium", HIGH |-> "high"]

\* PerformanceManager.getInitialQualitySettings; pixelRatio and
\* textureQuality are in hundredths
getInitialQualitySettings(capability, devicePixelRatio) ==
  CASE capability = DeviceCapability.LOW ->
         [pixelRatio |-> IF devicePixelRatio < 100 THEN devicePixelRatio ELSE 100,
          particleCount |-> 10, shadowQuality |-> FALSE, antialiasing |-> FALSE,
          textureQuality |-> 50, maxEntities |-> 20, targetFPS |-> 30]
    [] capability = DeviceCapability.MEDIUM ->
         [pixelRatio |-> IF devicePixelRatio < 150 THEN devicePixelRatio ELSE 150,
          particleCount |-> 20, shadowQuality |-> FALSE, antialiasing |-> TRUE,
          textureQuality |-> 100, maxEntities |-> 40, targetFPS |-> 45]
    [] OTHER ->
         [pixelRatio |-> devicePixelRatio,
          particleCount |-> 30, shadowQuality |-> TRUE, antialiasing |-> TRUE,
          textureQuality |-> 100, maxEntities |-> 60, targetFPS |-> 60]

\* new PerformanceManager() on a device of the given capability
newPerformanceManager(capability, devicePixelRatio) ==
  [capability |-> capability, devicePixelRatio |-> devicePixelRatio,
   qualitySettings |-> getInitialQualitySettings(capability, devicePixelRatio),
   frameTimeHistory |-> <<>>, lastQualityAdjustment |-> 0]

\* the performance manager of the game: MaxEntities stands for its maxEntities
gamePerformanceManager ==
  [newPerformanceManager(DeviceCapability.LOW, 100) EXCEPT !.qualitySettings.maxEntities = MaxEntities]

\* ghost: the clock at the last entry into PLAY (0: none since START) and at
\* the last entry into GAME_OVER
Entered(w, newState) ==
  CASE newState = PLAY -> [w EXCEPT !.g.playAt = w.now, !.g.overAt = 0]
    [] newState = GAME_OVER -> [w EXCEPT !.g.overAt = w.now]
    [] OTHER -> [w EXCEPT !.g.playAt = 0, !.g.overAt = 0]

-----------------------------------------------------------------------------
(* GameStateManager *)

RECURSIVE transitionTo(_, _, _)
RECURSIVE callStateCallbacks(_, _, _)
RECURSIVE runCallback(_, _)
RECURSIVE resetGame(_)

isValidTransition(fromState, toState) ==
  CASE fromState = START -> toState \in {PLAY}
    [] fromState = PLAY -> toState \in {GAME_OVER, START}
    [] fromState = GAME_OVER -> toState \in {START, PLAY}
    [] OTHER -> FALSE

handleStartState(w) == [w EXCEPT !.gsm.gameTime = 0, !.gsm.startTime = 0]

handlePlayState(w) == [w EXCEPT !.gsm.startTime = w.now, !.gsm.gameTime = 0]

handleGameOverState(w) ==
  IF w.gsm.startTime > 0
  THEN [w EXCEPT !.gsm.gameTime = w.now - w.gsm.startTime]
  ELSE w

handleStateTransition(w, newState) ==
  CASE newState = START -> handleStartState(w)
    [] newState = PLAY -> handlePlayState(w)
    [] newState = GAME_OVER -> handleGameOverState(w)
    [] OTHER -> w

\* variant: elapsed time keeps running from the origin in every state
getGameTime_running(w) ==
  IF w.gsm.startTime > 0
  THEN w.now - w.gsm.startTime
  ELSE w.gsm.gameTime

getGameTime(w) ==
  IF w.gsm.currentState = PLAY /\ w.gsm.startTime > 0
  THEN w.now - w.gsm.startTime
  ELSE w.gsm.gameTime

\* variant: the first callback that throws ends the loop
callStateCallbacks_aborting(w, kind, callbacks) ==
  IF callbacks = <<>> THEN w
  ELSE LET w1 == runCallback(Note(w, [op |-> "callback", kind |-> kind, cb |-> Head(callbacks)]),
                             Head(callbacks))
       IN IF w1.thrown THEN [w1 EXCEPT !.thrown = FALSE]
          ELSE callStateCallbacks(w1, kind, Tail(callbacks))

\* callbacks.forEach(callback => { try { callback() } catch { log } })
callStateCallbacks(w, kind, callbacks) ==
  IF callbacks = <<>> THEN w
  ELSE LET w1 == runCallback(Note(w, [op |-> "callback", kind |-> kind, cb |-> Head(callbacks)]),
                             Head(callbacks))
       IN callStateCallbacks([w1 EXCEPT !.thrown = FALSE], kind, Tail(callbacks))

\* variant: a request made while a transition is in progress overwrites the
\* current state
transitionTo_overwrites(w, newState, force) ==
  LET req == [op |-> "transitionTo", from |-> w.gsm.currentState, to |-> newState,
              force |-> force, nested |-> w.gsm.isTransitioning, accepted |-> FALSE]
      finish(w6) == [w6 EXCEPT !.gsm.isTransitioning = FALSE]
      change(w5) == finish(callStateCallbacks(w5, "change", w5.cbs.change[newState]))
      enter(w4) == change(callStateCallbacks(w4, "enter", w4.cbs.enter[newState]))
      switch(w2) == enter(handleStateTransition(
                            Entered([w2 EXCEPT !.gsm.currentState = newState], newState),
                            newState))
      exit(w1) == switch(callStateCallbacks(w1, "exit", w1.cbs.exit[w1.gsm.currentState]))
  IN
  IF w.gsm.currentState = newState /\ ~force THEN Note(w, req)
  ELSE IF w.gsm.isTransitioning
       THEN Note([w EXCEPT !.gsm.currentState = newState], req)
  ELSE exit([Note(w, [req EXCEPT !.accepted = TRUE])
               EXCEPT !.gsm.isTransitioning = TRUE,
                      !.gsm.previousState = w.gsm.currentState])

transitionTo(w, newState, force) ==
  LET req == [op |-> "transitionTo", from |-> w.gsm.currentState, to |-> newState,
              force |-> force, nested |-> w.gsm.isTransitioning, accepted |-> FALSE]
      finish(w6) == [w6 EXCEPT !.gsm.isTransitioning = FALSE]
      change(w5) == finish(callStateCallbacks(w5, "change", w5.cbs.change[newState]))
      enter(w4) == change(callStateCallbacks(w4, "enter", w4.cbs.enter[newState]))
      switch(w2) == enter(handleStateTransition(
                            Entered([w2 EXCEPT !.gsm.currentState = newState], newState),
                            newState))
      exit(w1) == switch(callStateCallbacks(w1, "exit", w1.cbs.exit[w1.gsm.currentState]))
  IN
  IF w.gsm.currentState = newState /\ ~force THEN Note(w, req)
  ELSE IF w.gsm.isTransitioning THEN Note(w, req)
  ELSE exit([Note(w, [req EXCEPT !.accepted = TRUE])
               EXCEPT !.gsm.isTransitioning = TRUE,
                      !.gsm.previousState = w.gsm.currentState])

startGame(w) == transitionTo(w, PLAY, FALSE)

\* variant: a request to end the game that is dropped
endGame_ignored(w) == w

\* variant: the game is ended with a forced transition
endGame_forced(w) == transitionTo(w, GAME_OVER, TRUE)

endGame(w) == transitionTo(w, GAME_OVER, FALSE)

forceTransition(w, newState) == transitionTo(w, newState, TRUE)

\* resetCallbacks.forEach(callback => { try { callback() } catch { log } })
RECURSIVE callResetCallbacks(_, _)
callResetCallbacks(w, callbacks) ==
  IF callbacks = <<>> THEN w
  ELSE LET w1 == runCallback(Note(w, [op |-> "callback", kind |-> "reset", cb |-> Head(callbacks)]),
                             Head(callbacks))
       IN callResetCallbacks([w1 EXCEPT !.thrown = FALSE], Tail(callbacks))

\* ghost: the reset callbacks invoked since the log was h, in order
resetCallbacksSince(h, l) ==
  LET tail == SubSeq(l, Len(h) + 1, Len(l))
      ran == SelectSeq(tail, LAMBDA e : e.op = "callback" /\ e.kind = "reset")
  IN [i \in 1..Len(ran) |-> ran[i].cb]

resetGame(w) ==
  LET return(w3) == Note(w3, [op |-> "resetGame", nested |-> w.gsm.isTransitioning,
                              from |-> w.gsm.currentState, state |-> w3.gsm.currentState,
                              gameTime |-> getGameTime(w3), ss |-> w3.ss])
      cleared(w1) == Note([w1 EXCEPT !.gsm.gameTime = 0, !.gsm.startTime = 0],
                          [op |-> "resetCallbacks", ran |-> resetCallbacksSince(w.log, w1.log)])
  IN return(transitionTo(cleared(callResetCallbacks(w, w.cbs.reset)), START, TRUE))

-----------------------------------------------------------------------------
(* Entity / Poop *)

\* variant: an entity that is already inactive is left alone
destroy_once(o) ==
  IF o.isActive THEN [o EXCEPT !.isActive = FALSE, !.catches = 0, !.disposed = @ + 1]
  ELSE o

\* Entity.destroy(): removes the mesh from the scene, calls dispose() on the
\* geometry and on the material (disposed counts these calls) and clears
\* isActive, whatever isActive was
destroy(o) == [o EXCEPT !.isActive = FALSE, !.catches = 0, !.disposed = @ + 1]

\* variant: the share of fancy projectiles grows without a ceiling
createRandomType_uncapped(score, random) ==
  IF random < 15 THEN BOOB
  ELSE IF random < 15 + (25 + (score \div 100) * 5) THEN FANCY
  ELSE REGULAR

\* Poop.createRandomType(score); random is Math.random() and the
\* probabilities of typeConfigs, all in hundredths
createRandomType(score, random) ==
  IF random < 15 THEN BOOB
  ELSE IF random < 15 + AtMost(40, 25 + (score \div 100) * 5) THEN FANCY
  ELSE REGULAR

typePoints(type) ==
  CASE type = REGULAR -> PointsRegular
    [] type = FANCY -> PointsFancy
    [] type = BOOB -> PointsBoob

\* variant: reset leaves the points of the previous life
resetPoop_keepsPoints(o, x, y, type, speed) ==
  [o EXCEPT !.type = type, !.x = x, !.y = y,
            !.fallSpeed = speed, !.scale = 100, !.fades = 0, !.isActive = TRUE,
            !.catches = 0]

\* new Poop(scene, x, y, type, screenBottom)
newPoop(x, y, type, speed) ==
  [isActive |-> TRUE, type |-> type, points |-> typePoints(type), x |-> x, y |-> y,
   fallSpeed |-> speed, scale |-> 100, fades |-> 0, intervals |-> 0, catches |-> 0,
   disposed |-> 0]

\* Poop.reset(scene, x, y, type, screenBottom) with a valid scene
resetPoop(o, x, y, type, speed) ==
  [o EXCEPT !.type = type, !.points = typePoints(type), !.x = x, !.y = y,
            !.fallSpeed = speed, !.scale = 100, !.fades = 0, !.isActive = TRUE,
            !.catches = 0]

\* Poop.update -> Entity.baseUpdate: position += velocity * deltaTime / 1000
updatePoop(o, deltaTime) ==
  IF ~o.isActive THEN o
  ELSE [o EXCEPT !.y = o.y - (o.fallSpeed * deltaTime) \div 1000]

isOffScreen(o) == o.y < SceneBottom

\* Poop.triggerCatchAnimation: scales the mesh by 1.5 (scale is in percent)
\* and starts one more 50 ms fade interval
triggerCatchAnimation(o) == [o EXCEPT !.scale = (@ * 3) \div 2, !.intervals = @ + 1]

opacityAtMostZero(fades) == fades >= FadeCallbacksToZero

\* one callback of a fade interval of instance o; cleared tells that the
\* callback has cleared its interval
fadeCallback(o) ==
  IF ~o.isActive THEN [obj |-> [o EXCEPT !.intervals = @ - 1], cleared |-> TRUE]
  ELSE IF opacityAtMostZero(o.fades + 1)
       THEN [obj |-> destroy([o EXCEPT !.fades = @ + 1, !.intervals = @ - 1]), cleared |-> TRUE]
       ELSE [obj |-> [o EXCEPT !.fades = @ + 1], cleared |-> FALSE]

\* n successive callbacks of one interval of instance o
RECURSIVE fadeCallbacks(_, _)
fadeCallbacks(o, n) ==
  IF n = 0 THEN o
  ELSE LET r == fadeCallback(o)
       IN IF r.cleared THEN r.obj ELSE fadeCallbacks(r.obj, n - 1)

-----------------------------------------------------------------------------
(* ScoreSystem *)

\* callbacks.forEach(callback => callback(...)): an exception ends the loop
RECURSIVE forEachCallback(_, _, _)
forEachCallback(w, kind, callbacks) ==
  IF callbacks = <<>> \/ w.thrown THEN w
  ELSE forEachCallback(
         runCallback(Note(w, [op |-> "callback", kind |-> kind, cb |-> Head(callbacks)]),
                     Head(callbacks)),
         kind, Tail(callbacks))

triggerGameOver(w) ==
  forEachCallback([w EXCEPT !.g.goFired = @ + 1], "gameOver", w.cbs.gameOver)

\* variant: every non-lethal catch is worth the low points
switchPoints_flat(poopType) ==
  CASE poopType = REGULAR -> PointsRegular
    [] poopType = FANCY -> PointsRegular
    [] OTHER -> 0

switchPoints(poopType) ==
  CASE poopType = REGULAR -> PointsRegular
    [] poopType = FANCY -> PointsFancy
    [] OTHER -> 0

\* variant: a non-lethal catch that leaves consecutiveMisses as it is
addScore_keepsCount(w, poopType) ==
  LET entry(w1, r) == [op |-> "addScore", type |-> poopType, pre |-> w.ss, post |-> w1.ss,
                       ret |-> r, fired |-> w1.g.goFired - w.g.goFired]
      return(w1, r) == IF w1.thrown THEN w1 ELSE Note([w1 EXCEPT !.ret = r], entry(w1, r))
      points == switchPoints(poopType)
  IN
  IF poopType = BOOB
  THEN return(triggerGameOver(w), 0)
  ELSE return(forEachCallback([w EXCEPT !.ss.score = @ + points],
                              "scoreUpdate", w.cbs.scoreUpdate),
              points)

addScore(w, poopType) ==
  LET entry(w1, r) == [op |-> "addScore", type |-> poopType, pre |-> w.ss, post |-> w1.ss,
                       ret |-> r, fired |-> w1.g.goFired - w.g.goFired]
      return(w1, r) == IF w1.thrown THEN w1 ELSE Note([w1 EXCEPT !.ret = r], entry(w1, r))
      points == switchPoints(poopType)
  IN
  IF poopType = BOOB
  THEN return(triggerGameOver(w), 0)
  ELSE return(forEachCallback([w EXCEPT !.ss.score = @ + points, !.ss.consecutiveMisses = 0],
                              "scoreUpdate", w.cbs.scoreUpdate),
              points)

\* variant: the limit test is "consecutiveMisses > maxMisses"
addMiss_strict(w) ==
  LET entry(w1, r) == [op |-> "addMiss", pre |-> w.ss, post |-> w1.ss,
                       ret |-> r, fired |-> w1.g.goFired - w.g.goFired]
      return(w1, r) == IF w1.thrown THEN w1 ELSE Note([w1 EXCEPT !.ret = r], entry(w1, r))
      limit(w2) ==
        IF w2.thrown THEN w2
        ELSE IF w2.ss.consecutiveMisses > w2.ss.maxMisses
             THEN return(triggerGameOver([w2 EXCEPT !.g.goMiss = @ + 1]), TRUE)
             ELSE return(w2, FALSE)
  IN limit(forEachCallback([w EXCEPT !.ss.misses = @ + 1, !.ss.consecutiveMisses = @ + 1],
                           "missUpdate", w.cbs.missUpdate))

addMiss(w) ==
  LET entry(w1, r) == [op |-> "addMiss", pre |-> w.ss, post |-> w1.ss,
                       ret |-> r, fired |-> w1.g.goFired - w.g.goFired]
      return(w1, r) == IF w1.thrown THEN w1 ELSE Note([w1 EXCEPT !.ret = r], entry(w1, r))
      limit(w2) ==
        IF w2.thrown THEN w2
        ELSE IF w2.ss.consecutiveMisses >= w2.ss.maxMisses
             THEN return(triggerGameOver([w2 EXCEPT !.g.goMiss = @ + 1]), TRUE)
             ELSE return(w2, FALSE)
  IN limit(forEachCallback([w EXCEPT !.ss.misses = @ + 1, !.ss.consecutiveMisses = @ + 1],
                           "missUpdate", w.cbs.missUpdate))

shouldGameOverOnCatch(poopType) == poopType = BOOB

\* ScoreSystem.reset()
resetScore(w) ==
  LET misses(w2) == forEachCallback(w2, "missUpdate", w2.cbs.missUpdate)
  IN misses(forEachCallback(
              [w EXCEPT !.ss.score = 0, !.ss.misses = 0, !.ss.consecutiveMisses = 0],
              "scoreUpdate", w.cbs.scoreUpdate))

\* The engine calls scoreSystem.resetConsecutiveMisses(), a method ScoreSystem
\* does not have: the call raises a TypeError.
resetConsecutiveMisses(w) == [w EXCEPT !.thrown = TRUE]

-----------------------------------------------------------------------------
(* Baby *)

\* variant: the period of the last reduction is not remembered
updateShootingRate_everyTick(b) ==
  IF b.gameTime \div DifficultyPeriod > b.lastShootRateUpdate
  THEN [b EXCEPT !.shootInterval =
                   IF (@ * 9) \div 10 < MinShootInterval THEN MinShootInterval
                   ELSE (@ * 9) \div 10]
  ELSE b

\* Baby.updateShootingRate; the interval is kept in whole milliseconds
updateShootingRate(b) ==
  IF b.gameTime \div DifficultyPeriod > b.lastShootRateUpdate
  THEN [b EXCEPT !.lastShootRateUpdate = b.gameTime \div DifficultyPeriod,
                 !.shootInterval =
                   IF (@ * 9) \div 10 < MinShootInterval THEN MinShootInterval
                   ELSE (@ * 9) \div 10]
  ELSE b

\* Baby.updateShooting: shoots tells whether the shoot callback is called
updateShooting(b, deltaTime, halves) ==
  IF b.shootTimer - deltaTime <= 0
  THEN [baby |-> resetShootTimer(b, halves), shoots |-> TRUE]
  ELSE [baby |-> [b EXCEPT !.shootTimer = @ - deltaTime], shoots |-> FALSE]

\* Baby.update(deltaTime); the baby is never destroyed
babyUpdate(b, deltaTime, halves) ==
  updateShooting(updateShootingRate([b EXCEPT !.gameTime = @ + deltaTime]), deltaTime, halves)

\* Baby.reset()
babyReset(b, halves) ==
  resetShootTimer([b EXCEPT !.gameTime = 0, !.lastShootRateUpdate = 0,
                            !.shootInterval = InitialShootInterval], halves)

-----------------------------------------------------------------------------
(* PerformanceManager: device detection. A browser is a record of what the   *)
(* probed facilities give: userAgent "desktop", "phone" or "missing"         *)
(* (navigator.userAgent undefined), the pixels of window.screen,             *)
(* devicePixelRatio in hundredths, hardwareConcurrency, deviceMemory (0 for  *)
(* each: undefined), and canvas "webgl", "none" (getContext gives null) or   *)
(* "throws".                                                                  *)

\* PerformanceManager.estimateMemory()
estimateMemory(browser) ==
  IF browser.screenPixels > 2000000 THEN 4
  ELSE IF browser.screenPixels > 1000000 THEN 2
  ELSE 1

\* PerformanceManager.isLowEndDevice(isMobile, memory, hardwareConcurrency, screenSize)
isLowEndDevice(isMobile, memory, hardwareConcurrency, screenPixels) ==
  IF ~isMobile THEN FALSE
  ELSE memory <= 2 \/ hardwareConcurrency <= 2 \/ screenPixels < 800000

\* PerformanceManager.determineCapability(isMobile, isLowEnd, memory, hardwareConcurrency)
determineCapability(isMobile, isLowEnd, memory, hardwareConcurrency) ==
  IF ~isMobile THEN DeviceCapability.HIGH
  ELSE IF isLowEnd THEN DeviceCapability.LOW
  ELSE IF memory >= 4 /\ hardwareConcurrency >= 4 THEN DeviceCapability.HIGH
  ELSE DeviceCapability.MEDIUM

\* PerformanceManager.detectDevice(); thrown: a probe threw (a TypeError on
\* the missing userAgent, or the exception of getContext)
detectDevice(browser) ==
  LET isMobile == browser.userAgent = "phone"
      pixelRatio == IF browser.devicePixelRatio = 0 THEN 100 ELSE browser.devicePixelRatio
      hardwareConcurrency == IF browser.hardwareConcurrency = 0 THEN 4
                             ELSE browser.hardwareConcurrency
      memory == IF browser.deviceMemory = 0 THEN estimateMemory(browser)
                ELSE browser.deviceMemory
      isLowEnd == isLowEndDevice(isMobile, memory, hardwareConcurrency, browser.screenPixels)
  IN [thrown |-> browser.userAgent = "missing" \/ browser.canvas = "throws",
      pixelRatio |-> pixelRatio,
      capability |-> determineCapability(isMobile, isLowEnd, memory, hardwareConcurrency)]

\* PerformanceManager.getInstance(): pm is <<>> while the static instance is
\* unset; an exception of the constructor leaves it unset and reaches the caller
getInstance(w, browser) ==
  IF w.pm # <<>> THEN w
  ELSE IF detectDevice(browser).thrown THEN [w EXCEPT !.thrown = TRUE]
  ELSE [w EXCEPT !.pm = newPerformanceManager(detectDevice(browser).capability,
                                              detectDevice(browser).pixelRatio)]

-----------------------------------------------------------------------------
(* Diaper: positions in pixels *)

\* Diaper.checkBounds()
checkBounds(d) ==
  LET x == AtLeast(d.bounds.left, AtMost(d.bounds.right, d.x))
      targetX == AtLeast(d.bounds.left, AtMost(d.bounds.right, d.targetX))
      positionChanged == x # d.x \/ targetX # d.targetX
  IN [d EXCEPT !.x = x,
               !.targetX = IF positionChanged /\ x \in {d.bounds.left, d.bounds.right}
                           THEN x ELSE targetX]

\* variant: the target is stored as supplied
setTargetX_unclamped(d, x) == [d EXCEPT !.targetX = x]

\* Diaper.setTargetX(x)
setTargetX(d, x) == [d EXCEPT !.targetX = AtLeast(d.bounds.left, AtMost(d.bounds.right, x))]

\* Diaper.moveLeft()
moveLeft(d) == [d EXCEPT !.targetX = AtLeast(d.bounds.left, @ - MoveStep)]

\* Diaper.moveRight()
moveRight(d) == [d EXCEPT !.targetX = AtMost(d.bounds.right, @ + MoveStep)]

\* Diaper.setBounds(left, right)
setBounds(d, left, right) == checkBounds([d EXCEPT !.bounds = [left |-> left, right |-> right]])

\* Diaper.updateMovement(deltaTime), for frame times that keep the products
\* whole; a distance below 0.5 is then 0
updateMovement(d, deltaTime) ==
  LET deltaX == d.targetX - d.x
      moveAmount == (deltaX * SmoothingFactor * deltaTime) \div 1000
      maxMoveDistance == (DiaperSpeed * deltaTime) \div 1000
      clampedMove == IF moveAmount < 0 THEN 0 - AtMost(maxMoveDistance, 0 - moveAmount)
                     ELSE AtMost(maxMoveDistance, moveAmount)
  IN IF deltaX = 0 THEN [d EXCEPT !.x = d.targetX]
     ELSE checkBounds([d EXCEPT !.x = @ + clampedMove])

\* Diaper.update(deltaTime); the diaper has no velocity, and the bobbing
\* animation moves it only vertically
diaperUpdate(d, deltaTime) ==
  IF ~d.isActive THEN d ELSE checkBounds(updateMovement(d, deltaTime))

-----------------------------------------------------------------------------
(* PerformanceManager *)


RECURSIVE Sum(_)
Sum(seq) == IF seq = <<>> THEN 0 ELSE Head(seq) + Sum(Tail(seq))

\* notifyQualityChange: the engine's callback is registered at construction
notifyQualityChange(w) ==
  Note(w, [op |-> "qualityChange", settings |-> w.pm.qualitySettings])

\* variant: the pixel ratio is reduced along with the particle count
reduceQuality_twoSteps(w) ==
  LET q == w.pm.qualitySettings
      done(w1, changed) ==
        IF changed
        THEN notifyQualityChange(Note(w1, [op |-> "reduceQuality", before |-> q,
                                           after |-> w1.pm.qualitySettings]))
        ELSE Note(w1, [op |-> "reduceQuality", before |-> q, after |-> w1.pm.qualitySettings])
  IN IF q.particleCount > 5
     THEN done([w EXCEPT !.pm.qualitySettings.particleCount = AtLeast(5, @ - 5),
                         !.pm.qualitySettings.pixelRatio = AtLeast(50, @ - 25)], TRUE)
     ELSE IF q.pixelRatio > 50
     THEN done([w EXCEPT !.pm.qualitySettings.pixelRatio = AtLeast(50, @ - 25)], TRUE)
     ELSE IF q.antialiasing
     THEN done([w EXCEPT !.pm.qualitySettings.antialiasing = FALSE], TRUE)
     ELSE IF q.textureQuality > 50
     THEN done([w EXCEPT !.pm.qualitySettings.textureQuality = 50], TRUE)
     ELSE IF q.maxEntities > 10
     THEN done([w EXCEPT !.pm.qualitySettings.maxEntities = AtLeast(10, @ - 10)], TRUE)
     ELSE done(w, FALSE)

\* variant: the entity budget has no floor
reduceQuality_noFloor(w) ==
  LET q == w.pm.qualitySettings
      done(w1, changed) ==
        IF changed
        THEN notifyQualityChange(Note(w1, [op |-> "reduceQuality", before |-> q,
                                           after |-> w1.pm.qualitySettings]))
        ELSE Note(w1, [op |-> "reduceQuality", before |-> q, after |-> w1.pm.qualitySettings])
  IN IF q.particleCount > 5
     THEN done([w EXCEPT !.pm.qualitySettings.particleCount = AtLeast(5, @ - 5)], TRUE)
     ELSE IF q.pixelRatio > 50
     THEN done([w EXCEPT !.pm.qualitySettings.pixelRatio = AtLeast(50, @ - 25)], TRUE)
     ELSE IF q.antialiasing
     THEN done([w EXCEPT !.pm.qualitySettings.antialiasing = FALSE], TRUE)
     ELSE IF q.textureQuality > 50
     THEN done([w EXCEPT !.pm.qualitySettings.textureQuality = 50], TRUE)
     ELSE IF q.maxEntities > 0
     THEN done([w EXCEPT !.pm.qualitySettings.maxEntities = @ - 10], TRUE)
     ELSE done(w, FALSE)

reduceQuality(w) ==
  LET q == w.pm.qualitySettings
      done(w1, changed) ==
        IF changed
        THEN notifyQualityChange(Note(w1, [op |-> "reduceQuality", before |-> q,
                                           after |-> w1.pm.qualitySettings]))
        ELSE Note(w1, [op |-> "reduceQuality", before |-> q, after |-> w1.pm.qualitySettings])
  IN IF q.particleCount > 5
     THEN done([w EXCEPT !.pm.qualitySettings.particleCount = AtLeast(5, @ - 5)], TRUE)
     ELSE IF q.pixelRatio > 50
     THEN done([w EXCEPT !.pm.qualitySettings.pixelRatio = AtLeast(50, @ - 25)], TRUE)
     ELSE IF q.antialiasing
     THEN done([w EXCEPT !.pm.qualitySettings.antialiasing = FALSE], TRUE)
     ELSE IF q.textureQuality > 50
     THEN done([w EXCEPT !.pm.qualitySettings.textureQuality = 50], TRUE)
     ELSE IF q.maxEntities > 10
     THEN done([w EXCEPT !.pm.qualitySettings.maxEntities = AtLeast(10, @ - 10)], TRUE)
     ELSE done(w, FALSE)

\* variant: the dimensions are raised in the reverse of the order in which
\* they are reduced
increaseQuality_reverse(w) ==
  LET q == w.pm.qualitySettings
      initialSettings == getInitialQualitySettings(w.pm.capability, w.pm.devicePixelRatio)
      done(w1, changed) ==
        IF changed
        THEN notifyQualityChange(Note(w1, [op |-> "increaseQuality", before |-> q,
                                           after |-> w1.pm.qualitySettings,
                                           initial |-> initialSettings]))
        ELSE Note(w1, [op |-> "increaseQuality", before |-> q,
                       after |-> w1.pm.qualitySettings, initial |-> initialSettings])
  IN IF q.maxEntities < initialSettings.maxEntities
     THEN done([w EXCEPT !.pm.qualitySettings.maxEntities =
                           AtMost(initialSettings.maxEntities, @ + 10)], TRUE)
     ELSE IF q.textureQuality < initialSettings.textureQuality
     THEN done([w EXCEPT !.pm.qualitySettings.textureQuality =
                           initialSettings.textureQuality], TRUE)
     ELSE IF ~q.antialiasing /\ initialSettings.antialiasing
     THEN done([w EXCEPT !.pm.qualitySettings.antialiasing = TRUE], TRUE)
     ELSE IF q.pixelRatio < initialSettings.pixelRatio
     THEN done([w EXCEPT !.pm.qualitySettings.pixelRatio =
                           AtMost(initialSettings.pixelRatio, @ + 25)], TRUE)
     ELSE IF q.particleCount < initialSettings.particleCount
     THEN done([w EXCEPT !.pm.qualitySettings.particleCount =
                           AtMost(initialSettings.particleCount, @ + 5)], TRUE)
     ELSE done(w, FALSE)

increaseQuality(w) ==
  LET q == w.pm.qualitySettings
      initialSettings == getInitialQualitySettings(w.pm.capability, w.pm.devicePixelRatio)
      done(w1, changed) ==
        IF changed
        THEN notifyQualityChange(Note(w1, [op |-> "increaseQuality", before |-> q,
                                           after |-> w1.pm.qualitySettings,
                                           initial |-> initialSettings]))
        ELSE Note(w1, [op |-> "increaseQuality", before |-> q,
                       after |-> w1.pm.qualitySettings, initial |-> initialSettings])
  IN IF q.particleCount < initialSettings.particleCount
     THEN done([w EXCEPT !.pm.qualitySettings.particleCount =
                           AtMost(initialSettings.particleCount, @ + 5)], TRUE)
     ELSE IF q.pixelRatio < initialSettings.pixelRatio
     THEN done([w EXCEPT !.pm.qualitySettings.pixelRatio =
                           AtMost(initialSettings.pixelRatio, @ + 25)], TRUE)
     ELSE IF ~q.antialiasing /\ initialSettings.antialiasing
     THEN done([w EXCEPT !.pm.qualitySettings.antialiasing = TRUE], TRUE)
     ELSE IF q.textureQuality < initialSettings.textureQuality
     THEN done([w EXCEPT !.pm.qualitySettings.textureQuality =
                           initialSettings.textureQuality], TRUE)
     ELSE IF q.maxEntities < initialSettings.maxEntities
     THEN done([w EXCEPT !.pm.qualitySettings.maxEntities =
                           AtMost(initialSettings.maxEntities, @ + 10)], TRUE)
     ELSE done(w, FALSE)

canIncreaseQuality(w) ==
  LET q == w.pm.qualitySettings
      initialSettings == getInitialQualitySettings(w.pm.capability, w.pm.devicePixelRatio)
  IN \/ q.particleCount < initialSettings.particleCount
     \/ q.pixelRatio < initialSettings.pixelRatio
     \/ (~q.antialiasing /\ initialSettings.antialiasing)
     \/ q.textureQuality < initialSettings.textureQuality
     \/ q.maxEntities < initialSettings.maxEntities

\* ghost: an adjustment made at the clock w.now
Adjusted(w, kind) ==
  [Note(w, [op |-> "adjust", kind |-> kind, at |-> w.now, earlier |-> w.g.adjustments,
            previousAt |-> w.g.adjustedAt, samples |-> Len(w.pm.frameTimeHistory)])
     EXCEPT !.g.adjustments = 1, !.g.adjustedAt = w.now]

\* variant: no cooldown between two adjustments
checkPerformanceAndAdjust_noCooldown(w) ==
  LET h == w.pm.frameTimeHistory
      targetFPS == w.pm.qualitySettings.targetFPS
  IN IF Len(h) < MinHistoryLength THEN w
     ELSE IF 10000 * Len(h) < 8 * targetFPS * Sum(h)
     THEN [reduceQuality(Adjusted(w, "reduce")) EXCEPT !.pm.lastQualityAdjustment = w.now]
     ELSE IF 10000 * Len(h) > 12 * targetFPS * Sum(h) /\ canIncreaseQuality(w)
     THEN [increaseQuality(Adjusted(w, "increase")) EXCEPT !.pm.lastQualityAdjustment = w.now]
     ELSE w

\* avgFPS = 1000 / (Sum(h) / Len(h)); avgFPS < targetFPS * 0.8 and
\* avgFPS > targetFPS * 1.2 are compared after multiplying out
checkPerformanceAndAdjust(w) ==
  LET h == w.pm.frameTimeHistory
      targetFPS == w.pm.qualitySettings.targetFPS
  IN IF w.now - w.pm.lastQualityAdjustment < QualityAdjustmentCooldown THEN w
     ELSE IF Len(h) < MinHistoryLength THEN w
     ELSE IF 10000 * Len(h) < 8 * targetFPS * Sum(h)
     THEN [reduceQuality(Adjusted(w, "reduce")) EXCEPT !.pm.lastQualityAdjustment = w.now]
     ELSE IF 10000 * Len(h) > 12 * targetFPS * Sum(h) /\ canIncreaseQuality(w)
     THEN [increaseQuality(Adjusted(w, "increase")) EXCEPT !.pm.lastQualityAdjustment = w.now]
     ELSE w

\* updateMetrics(frameTime): the metrics record it also fills is read by no
\* modelled code
updateMetrics(w, frameTime) ==
  LET pushed == Append(w.pm.frameTimeHistory, frameTime)
  IN checkPerformanceAndAdjust(
       Note([w EXCEPT !.pm.frameTimeHistory =
                        IF Len(pushed) > MaxHistoryLength THEN Tail(pushed) ELSE pushed],
            [op |-> "updateMetrics"]))

-----------------------------------------------------------------------------
(* CollisionSystem *)

\* variant: boxes that only touch collide
checkDiaperPoopCollision_touching(d, poop) ==
  /\ d.isActive /\ poop.isActive
  /\ Abs(d.x - poop.x) <= DiaperWidth \div 2 + PoopWidth \div 2
  /\ Abs(d.y - poop.y) <= DiaperHeight \div 2 + PoopHeight \div 2

checkDiaperPoopCollision(d, poop) ==
  /\ d.isActive /\ poop.isActive
  /\ Abs(d.x - poop.x) < DiaperWidth \div 2 + PoopWidth \div 2
  /\ Abs(d.y - poop.y) < DiaperHeight \div 2 + PoopHeight \div 2

\* the first colliding projectile in array order, or 0 for null; the diaper
\* is at (diaperX, diaperY)
checkDiaperPoopCollisions(w, diaperX, diaperY) ==
  LET hits == {k \in 1..Len(w.eng.poops) :
                 checkDiaperPoopCollision([w.diaper EXCEPT !.x = diaperX, !.y = diaperY],
                                          w.objs[w.eng.poops[k]])}
  IN IF hits = {} THEN 0
     ELSE w.eng.poops[CHOOSE k \in hits : \A j \in hits : k <= j]

-----------------------------------------------------------------------------
(* ObjectPool / PoopPool *)

\* variant: the first pooled instance is handed out, active or not
poolGet_first(w) ==
  LET free == {k \in 1..Len(w.pool.pool) : TRUE}
      active == {id \in 1..Len(w.objs) : w.objs[id].isActive}
      return(w2, id, created) ==
        Note([w2 EXCEPT !.ret = id],
             [op |-> "get", id |-> id, created |-> created,
              wasActive |-> id \in active,
              noneFree |-> \A k \in 1..Len(w.pool.pool) : w.objs[w.pool.pool[k]].isActive,
              atCap |-> Len(w.pool.pool) >= w.pool.maxSize,
              retained |-> \E k \in 1..Len(w2.pool.pool) : w2.pool.pool[k] = id,
              deactivated |-> {a \in active : ~w2.objs[a].isActive}])
      grown(w1, id) == IF Len(w1.pool.pool) < w1.pool.maxSize
                       THEN [w1 EXCEPT !.pool.pool = Append(@, id)]
                       ELSE w1
  IN IF free # {}
     THEN return(w, w.pool.pool[CHOOSE k \in free : \A j \in free : k <= j], FALSE)
     ELSE return(grown([w EXCEPT !.objs = Append(@, newPoop(0, 0, REGULAR, BaseSpeed))],
                       Len(w.objs) + 1),
                 Len(w.objs) + 1, TRUE)

\* variant: a new instance is retained whatever the size of the pool
poolGet_retainsAll(w) ==
  LET free == {k \in 1..Len(w.pool.pool) : ~w.objs[w.pool.pool[k]].isActive}
      active == {id \in 1..Len(w.objs) : w.objs[id].isActive}
      return(w2, id, created) ==
        Note([w2 EXCEPT !.ret = id],
             [op |-> "get", id |-> id, created |-> created,
              wasActive |-> id \in active,
              noneFree |-> \A k \in 1..Len(w.pool.pool) : w.objs[w.pool.pool[k]].isActive,
              atCap |-> Len(w.pool.pool) >= w.pool.maxSize,
              retained |-> \E k \in 1..Len(w2.pool.pool) : w2.pool.pool[k] = id,
              deactivated |-> {a \in active : ~w2.objs[a].isActive}])
      grown(w1, id) == IF TRUE
                       THEN [w1 EXCEPT !.pool.pool = Append(@, id)]
                       ELSE w1
  IN IF free # {}
     THEN return(w, w.pool.pool[CHOOSE k \in free : \A j \in free : k <= j], FALSE)
     ELSE return(grown([w EXCEPT !.objs = Append(@, newPoop(0, 0, REGULAR, BaseSpeed))],
                       Len(w.objs) + 1),
                 Len(w.objs) + 1, TRUE)

\* ObjectPool.get(): the result is in ret.  A pooled instance is reset() with
\* no arguments, which Poop.reset refuses (no scene) and leaves it as it is.
poolGet(w) ==
  LET free == {k \in 1..Len(w.pool.pool) : ~w.objs[w.pool.pool[k]].isActive}
      active == {id \in 1..Len(w.objs) : w.objs[id].isActive}
      return(w2, id, created) ==
        Note([w2 EXCEPT !.ret = id],
             [op |-> "get", id |-> id, created |-> created,
              wasActive |-> id \in active,
              noneFree |-> \A k \in 1..Len(w.pool.pool) : w.objs[w.pool.pool[k]].isActive,
              atCap |-> Len(w.pool.pool) >= w.pool.maxSize,
              retained |-> \E k \in 1..Len(w2.pool.pool) : w2.pool.pool[k] = id,
              deactivated |-> {a \in active : ~w2.objs[a].isActive}])
      grown(w1, id) == IF Len(w1.pool.pool) < w1.pool.maxSize
                       THEN [w1 EXCEPT !.pool.pool = Append(@, id)]
                       ELSE w1
  IN IF free # {}
     THEN return(w, w.pool.pool[CHOOSE k \in free : \A j \in free : k <= j], FALSE)
     ELSE return(grown([w EXCEPT !.objs = Append(@, newPoop(0, 0, REGULAR, BaseSpeed))],
                       Len(w.objs) + 1),
                 Len(w.objs) + 1, TRUE)

getPoop(w, x, y, type, speed) ==
  LET reset(w1) ==
        Note([w1 EXCEPT !.objs[w1.ret] = resetPoop(@, x, y, type, speed)],
             [op |-> "getPoop", id |-> w1.ret, x |-> x, y |-> y, type |-> type,
              speed |-> speed, before |-> w1.objs[w1.ret],
              after |-> resetPoop(w1.objs[w1.ret], x, y, type, speed)])
  IN reset(poolGet(w))

\* ObjectPool.clear()
RECURSIVE destroyActive(_, _)
destroyActive(w, ids) ==
  IF ids = <<>> THEN w
  ELSE destroyActive(IF w.objs[Head(ids)].isActive
                     THEN [w EXCEPT !.objs[Head(ids)] = destroy(@)]
                     ELSE w,
                     Tail(ids))

clear(w) == [destroyActive(w, w.pool.pool) EXCEPT !.pool.pool = <<>>]

-----------------------------------------------------------------------------
(* DiaperDefenseEngine *)

handlePoopCatch(w, id) ==
  LET type == w.objs[id].type
      scored(w2) == IF w2.thrown THEN w2
                    ELSE IF shouldGameOverOnCatch(type) THEN endGame(w2) ELSE w2
  IN scored(addScore([w EXCEPT !.objs[id] = [triggerCatchAnimation(@) EXCEPT !.catches = @ + 1],
                               !.g.hist = IF type = BOOB THEN @ ELSE Remember(@, "catch")],
                     type))

\* "Only count misses for regular and fancy poop"
\* variant: every type counts as a miss
countsAsMiss_all(type) == type \in PoopType

countsAsMiss(type) == type = REGULAR \/ type = FANCY

RECURSIVE checkMissedPoopsFrom(_, _)
checkMissedPoopsFrom(w, k) ==
  IF k > Len(w.eng.poops) \/ w.thrown THEN w
  ELSE
    LET id == w.eng.poops[k]
        o == w.objs[id]
        lethal == o.type = BOOB
        afterMiss == w.g.hist # <<>> /\ w.g.hist[Len(w.g.hist)] = "miss"
        logged(we) == Note(we, [op |-> "miss", id |-> id, type |-> o.type,
                                caught |-> o.catches, afterMiss |-> afterMiss,
                                state |-> w.gsm.currentState,
                                pre |-> w.ss, post |-> we.ss,
                                fired |-> we.g.goFired - w.g.goFired])
        ended(wd, gameOver) == IF gameOver THEN endGame(wd) ELSE wd
        removed(wm) ==
          IF wm.thrown THEN wm
          ELSE checkMissedPoopsFrom(
                 logged(ended([wm EXCEPT !.objs[id] = destroy(@)],
                              countsAsMiss(o.type) /\ wm.ret = TRUE)),
                 k + 1)
        counted(wg) ==
          removed(IF countsAsMiss(o.type) THEN addMiss(wg)
                  ELSE IF o.type = PoopType_BOMB THEN resetConsecutiveMisses(wg)
                  ELSE [wg EXCEPT !.ret = FALSE])
    IN
    IF ~(o.isActive /\ isOffScreen(o)) THEN checkMissedPoopsFrom(w, k + 1)
    ELSE counted([w EXCEPT !.g.hist = IF lethal THEN @ ELSE Remember(@, "miss"),
                           !.g.twoInRow = @ \/ (~lethal /\ afterMiss)])

checkMissedPoops(w) == checkMissedPoopsFrom(w, 1)

checkCollisions(w, diaperX, diaperY) ==
  LET caught(collidingPoop) ==
        IF collidingPoop # 0 THEN handlePoopCatch(w, collidingPoop) ELSE w
      missed(w1) == IF w1.thrown THEN w1 ELSE checkMissedPoops(w1)
  IN missed(caught(checkDiaperPoopCollisions(w, diaperX, diaperY)))

cleanupEntities(w) ==
  [w EXCEPT !.eng.poops = SelectSeq(@, LAMBDA id : w.objs[id].isActive)]

onBabyShoot(w, poopType, x, speed) ==
  LET limit(w1) == IF Len(w1.eng.poops) >= w1.pm.qualitySettings.maxEntities
                   THEN [w1 EXCEPT !.objs[Head(w1.eng.poops)] = destroy(@),
                                   !.eng.poops = Tail(@)]
                   ELSE w1
      push(w2, poop) ==
        Note([w2 EXCEPT !.eng.poops = Append(@, poop), !.g.spawned = @ + 1],
             [op |-> "spawn", tracked |-> Len(w2.eng.poops) + 1,
              maxEntities |-> w2.pm.qualitySettings.maxEntities])
      shoot(w1) == push(limit(w1), w1.ret)
  IN
  IF w.eng.gameState # PLAY THEN w
  ELSE shoot(getPoop(w, x, (SceneTop - BabyYOffset) - ShootYOffset, poopType, speed))

\* this.poops.forEach(poop => { if (poop.isActive) poop.update(deltaTime) })
RECURSIVE updatePoopsFrom(_, _, _)
updatePoopsFrom(w, k, deltaTime) ==
  IF k > Len(w.eng.poops) THEN w
  ELSE updatePoopsFrom([w EXCEPT !.objs[w.eng.poops[k]] = updatePoop(@, deltaTime)],
                       k + 1, deltaTime)

\* shot is <<>> when the baby's shoot timer has not run out during this
\* update, or <<type, x, speed>>: the type drawn by createRandomType, the
\* baby's position and the fall speed drawn by Poop.reset.
updateGameEntities(w, deltaTime, shot) ==
  LET w1 == IF shot = <<>> THEN w ELSE onBabyShoot(w, shot[1], shot[2], shot[3])
  IN updatePoopsFrom(w1, 1, deltaTime)

\* diaperX, diaperY: where Diaper.update leaves the diaper in this tick
\* The log tells the order of the calls: inputManager.update(),
\* updateGameEntities, checkCollisions, cleanupEntities.
update(w, deltaTime, shot, diaperX, diaperY) ==
  LET cleanup(w3) ==
        [(IF w3.thrown THEN w3 ELSE cleanupEntities(Note(w3, [op |-> "cleanupEntities"])))
         EXCEPT !.thrown = FALSE]
      collide(w2) == checkCollisions(Note(w2, [op |-> "checkCollisions"]), diaperX, diaperY)
      play(w1) ==
        IF w1.eng.gameState # PLAY THEN w1
        ELSE cleanup(collide(updateGameEntities(Note(w1, [op |-> "updateGameEntities"]),
                                                deltaTime, shot)))
  IN play(Note([w EXCEPT !.eng.gameState = w.gsm.currentState], [op |-> "inputUpdate"]))

\* DiaperDefenseEngine.render(): draws the scene, no modelled state changes
render(w) == Note(w, [op |-> "render"])

\* requestAnimationFrame(this.gameLoop): frames counts the callbacks that
\* the browser will run at the next animation frame
requestAnimationFrame(w) == [w EXCEPT !.ui.frames = @ + 1]

\* variant: the metrics are recorded before the frame is rendered
gameLoop_metricsFirst(w, deltaTime, shot, diaperX, diaperY) ==
  IF ~w.eng.isRunning THEN w
  ELSE requestAnimationFrame(
         render(updateMetrics(update(w, deltaTime, shot, diaperX, diaperY), deltaTime)))

\* DiaperDefenseEngine.gameLoop(currentTime), deltaTime = currentTime - lastTime
gameLoop(w, deltaTime, shot, diaperX, diaperY) ==
  IF ~w.eng.isRunning THEN w
  ELSE requestAnimationFrame(
         updateMetrics(render(update(w, deltaTime, shot, diaperX, diaperY)), deltaTime))

RECURSIVE destroyAll(_, _)
destroyAll(w, ids) ==
  IF ids = <<>> THEN w
  ELSE destroyAll([w EXCEPT !.objs[Head(ids)] = destroy(@)], Tail(ids))

resetGameEntities(w) ==
  [destroyAll(w, w.eng.poops) EXCEPT !.eng.poops = <<>>]

onGameStart(w) == resetGameEntities(resetScore(w))

\* showGameOver(): the screen switch and gameEngine.stop() run 400 ms later
showGameOver(w) == [w EXCEPT !.ui.stopTimers = @ + 1]

\* ghost: shown counts the runs of onGameOver in the session
onGameOver(w) == showGameOver([w EXCEPT !.g.shown = @ + 1])

\* gameEngine.start(); its gameLoop(0) call runs one update with
\* deltaTime = 0 - lastTime <= 0, in which the shoot timer cannot run out
start(w) ==
  LET loop(w2) == update([w2 EXCEPT !.eng.gameState = w2.gsm.currentState],
                         0, <<>>, 0, SceneBottom + DiaperYOffset)
  IN requestAnimationFrame(loop(startGame([w EXCEPT !.eng.isRunning = TRUE])))

stop(w) == [w EXCEPT !.eng.isRunning = FALSE]

-----------------------------------------------------------------------------
(* Registered callbacks *)

runCallback(w, cb) ==
  CASE cb = "engine.endGame" -> endGame(w)
    [] cb = "engine.onGameStart" -> onGameStart(w)
    [] cb = "engine.onGameOver" -> onGameOver(w)
    [] cb = "engine.resetGameEntities" -> resetGameEntities(w)
    [] cb = "client.startGame" -> startGame(w)
    [] cb = "client.endGame" -> endGame(w)
    [] cb = "client.resetGame" -> resetGame(w)
    [] cb = "client.throws" -> [w EXCEPT !.thrown = TRUE]
    [] OTHER -> w

\* DiaperDefenseEngine.setupSystemCallbacks
setupSystemCallbacks ==
  [exit |-> [s \in GameState |-> <<>>],
   enter |-> [s \in GameState |-> <<>>],
   change |-> [s \in GameState |->
                 CASE s = PLAY -> <<"engine.onGameStart">>
                   [] s = GAME_OVER -> <<"engine.onGameOver">>
                   [] OTHER -> <<>>],
   reset |-> <<"engine.resetGameEntities">>,
   gameOver |-> <<"engine.endGame">>,
   scoreUpdate |-> <<"engine.updateScoreDisplay">>,
   missUpdate |-> <<"engine.updateMissDisplay">>]

-----------------------------------------------------------------------------
(* The score server: POST /api/save-score *)

\* server/index.ts
MaxReasonableScore == 1000000
MaxGameTime == 86400000
LeaderboardSize == 100
HistorySize == 10
Usernames == {"alice", "bob", "anonymous"}

\* validateScoreData(score, gameTime), for numbers that are finite
validateScoreData(score, gameTime) ==
  /\ ~(score < 0)
  /\ ~(gameTime < 0)
  /\ ~(score > MaxReasonableScore)
  \* gameTime < Math.max(1, score / 10000), over the integers
  /\ ~(gameTime > 0 /\ (gameTime < 1 \/ gameTime < (score + 9999) \div 10000))
  /\ ~(gameTime > MaxGameTime)

\* the redis keys of one post: user-best (0: no key), leaderboard (<<>>: no
\* key), user-history and total-players; and the handlers in progress
newServer ==
  [best |-> [u \in Usernames |-> 0],
   leaderboard |-> <<>>,
   history |-> [u \in Usernames |-> <<>>],
   totalPlayers |-> 0,
   requests |-> <<>>]

\* leaderboardEntries.filter(entry => entry.username !== username)
RECURSIVE withoutUser(_, _)
withoutUser(entries, username) ==
  IF entries = <<>> THEN <<>>
  ELSE IF Head(entries).username # username
       THEN <<Head(entries)>> \o withoutUser(Tail(entries), username)
       ELSE withoutUser(Tail(entries), username)

\* one entry put into a list that is sorted by score descending, behind the
\* entries of the same score
RECURSIVE insertByScore(_, _)
insertByScore(sorted, entry) ==
  IF sorted = <<>> THEN <<entry>>
  ELSE IF Head(sorted).score >= entry.score
       THEN <<Head(sorted)>> \o insertByScore(Tail(sorted), entry)
       ELSE <<entry>> \o sorted

\* leaderboardEntries.sort((a, b) => b.score - a.score), a stable sort
RECURSIVE sortByScore(_)
sortByScore(entries) ==
  IF entries = <<>> THEN <<>>
  ELSE insertByScore(sortByScore(SubSeq(entries, 1, Len(entries) - 1)), entries[Len(entries)])

\* the leaderboard the handler writes, from the one it has read
updateLeaderboard(leaderboardEntries, username, score, isNewBest, existingBest) ==
  LET filtered == withoutUser(leaderboardEntries, username)
      pushed ==
        IF isNewBest THEN Append(filtered, [username |-> username, score |-> score])
        ELSE IF existingBest # 0
             THEN Append(filtered, [username |-> username, score |-> existingBest])
             ELSE filtered
      sorted == sortByScore(pushed)
  IN IF Len(sorted) > LeaderboardSize THEN SubSeq(sorted, 1, LeaderboardSize) ELSE sorted

\* history.push(score), cut to the last ten
updateHistory(history, score) ==
  LET pushed == Append(history, score)
  IN IF Len(pushed) > HistorySize
     THEN SubSeq(pushed, Len(pushed) - HistorySize + 1, Len(pushed))
     ELSE pushed

\* calculateUserRank, from the leaderboard it reads
calculateUserRank(leaderboardEntries, score) ==
  Cardinality({i \in 1..Len(leaderboardEntries) : leaderboardEntries[i].score > score}) + 1

\* what a finished handler keeps: its request, its user, isNewBest and the
\* response
finish(r, status) ==
  [r EXCEPT !.pending = "done", !.status = status, !.previousBest = 0,
            !.leaderboardEntries = <<>>, !.history = <<>>]

\* the handler up to its first await; during: the handlers in progress when
\* this one begins
saveScore(w, providedUsername, redditUsername, score, gameTime) ==
  LET r == [providedUsername |-> providedUsername, redditUsername |-> redditUsername,
            score |-> score, gameTime |-> gameTime,
            during |-> {i \in 1..Len(w.srv.requests) : w.srv.requests[i].pending # "done"},
            pending |-> "reddit.getCurrentUsername", status |-> 0,
            username |-> "", previousBest |-> 0, isNewBest |-> FALSE,
            leaderboardEntries |-> <<>>, history |-> <<>>]
  IN [w EXCEPT !.srv.requests =
        Append(@, IF validateScoreData(score, gameTime) THEN r ELSE finish(r, 400))]

\* the awaited call of handler i is served and the handler runs on to its
\* next await
resume(w, i) ==
  LET r == w.srv.requests[i]
      to(r1) == [w EXCEPT !.srv.requests[i] = r1]
  IN CASE r.pending = "reddit.getCurrentUsername" ->
            to([r EXCEPT !.pending = "get user-best",
                         !.username = IF r.providedUsername # "" THEN r.providedUsername
                                      ELSE IF r.redditUsername # "" THEN r.redditUsername
                                      ELSE "anonymous"])
       [] r.pending = "get user-best" ->
            to([r EXCEPT !.pending = "get leaderboard",
                         !.previousBest = w.srv.best[r.username],
                         !.isNewBest = r.score > w.srv.best[r.username]])
       [] r.pending = "get leaderboard" ->
            to([r EXCEPT !.pending = "set leaderboard",
                         !.leaderboardEntries =
                            updateLeaderboard(w.srv.leaderboard, r.username, r.score,
                                              r.isNewBest, r.previousBest)])
       [] r.pending = "set leaderboard" ->
            [to([r EXCEPT !.pending = IF r.isNewBest THEN "set user-best"
                                      ELSE "get user-history"])
               EXCEPT !.srv.leaderboard = r.leaderboardEntries]
       [] r.pending = "set user-best" ->
            [to([r EXCEPT !.pending = "get user-history"])
               EXCEPT !.srv.best[r.username] = r.score]
       [] r.pending = "get user-history" ->
            to([r EXCEPT !.pending = "set user-history",
                         !.history = updateHistory(w.srv.history[r.username], r.score)])
       [] r.pending = "set user-history" ->
            [to([r EXCEPT !.pending = "get leaderboard for rank"])
               EXCEPT !.srv.history[r.username] = r.history]
       [] r.pending = "get leaderboard for rank" ->
            to([r EXCEPT !.pending = "get total-players"])
       [] r.pending = "get total-players" ->
            to(IF r.isNewBest /\ r.previousBest = 0
               THEN [r EXCEPT !.pending = "incrBy total-players"]
               ELSE finish(r, 200))
       [] r.pending = "incrBy total-players" ->
            [to(finish(r, 200)) EXCEPT !.srv.totalPlayers = @ + 1]
       [] OTHER -> w

-----------------------------------------------------------------------------
(* HighScoreManager *)

\* saveScoreWithRetry(score, gameTime, maxRetries = 2)
MaxRetries == 2

\* the fields of a new manager; lastSavedScore -1 is null; calls: the calls
\* of saveCurrentScore that have not returned, each at its pending await
newHighScoreManager ==
  [isInitialized |-> FALSE, isSubmittingScore |-> FALSE, lastSavedScore |-> 0 - 1,
   calls |-> <<>>]

\* HighScoreManager.initialize, at its end
initialize(w) == [w EXCEPT !.hsm.isInitialized = TRUE]

\* HighScoreManager.handleGameStart
handleGameStart(w) == [w EXCEPT !.hsm.isSubmittingScore = FALSE]

\* HighScoreManager.handleGameReset
handleGameReset(w) ==
  [w EXCEPT !.hsm.isSubmittingScore = FALSE, !.hsm.lastSavedScore = 0 - 1]

\* the return of call i of saveCurrentScore, through its finally block
returnFromSave(w, i, response) ==
  Note([w EXCEPT !.hsm.isSubmittingScore = FALSE,
                 !.hsm.calls = SubSeq(@, 1, i - 1) \o SubSeq(@, i + 1, Len(@))],
       [op |-> "saveCurrentScore returns", response |-> response])

\* HighScoreManager.saveCurrentScore, up to its first await
saveCurrentScore(w) ==
  IF w.hsm.isSubmittingScore
  THEN Note(w, [op |-> "saveCurrentScore returns", response |-> "null"])
  ELSE IF ~w.hsm.isInitialized
  THEN Note(w, [op |-> "saveCurrentScore returns", response |-> "fallback"])
  ELSE LET w1 == [w EXCEPT !.hsm.isSubmittingScore = TRUE]
       IN IF w.ss.score < 0 \/ getGameTime(w) < 0
          THEN returnFromSave([w1 EXCEPT !.hsm.calls = Append(@, [pending |-> "throw"])],
                              Len(w1.hsm.calls) + 1, "fallback")
          ELSE [w1 EXCEPT !.hsm.calls =
                  Append(@, [pending |-> "isAPIAvailable", attempt |-> 1,
                             score |-> w.ss.score])]

\* the catch block of saveScoreWithRetry in call i: the loop ends on an error
\* that is not retried and after the last attempt, and saveCurrentScore
\* catches what is thrown; otherwise the call waits delay(1000 * attempt)
catchInRetry(w, i, nonRetryable) ==
  LET c == w.hsm.calls[i]
  IN IF nonRetryable \/ c.attempt > MaxRetries
     THEN returnFromSave(w, i, "fallback")
     ELSE [w EXCEPT !.hsm.calls[i].pending = "delay"]

\* apiClient.saveScore(score, gameTime) is called in call i
sendSaveScore(w, i) ==
  Note([w EXCEPT !.hsm.calls[i].pending = "saveScore"],
       [op |-> "apiClient.saveScore", score |-> w.hsm.calls[i].score])

\* the await of call i ends with the given outcome
resumeSave(w, i, outcome) ==
  LET c == w.hsm.calls[i]
  IN CASE c.pending = "isAPIAvailable" ->
            IF outcome = "success" THEN sendSaveScore(w, i)
            ELSE catchInRetry(w, i, FALSE)
       [] c.pending = "delay" ->
            sendSaveScore([w EXCEPT !.hsm.calls[i].attempt = @ + 1], i)
       [] c.pending = "saveScore" ->
            CASE outcome = "success" ->
                   returnFromSave([w EXCEPT !.hsm.lastSavedScore = c.score], i, "success")
              [] outcome = "unsuccessful" -> returnFromSave(w, i, "unsuccessful")
              [] outcome = "invalid" -> catchInRetry(w, i, TRUE)
              [] OTHER -> catchInRetry(w, i, FALSE)
       [] OTHER -> w

-----------------------------------------------------------------------------
(* The program *)

Init ==
  /\ ss = [score |-> 0, misses |-> 0, consecutiveMisses |-> 0, maxMisses |-> DefaultMaxMisses]
  /\ gsm = [currentState |-> START, previousState |-> START, isTransitioning |-> FALSE,
            gameTime |-> 0, startTime |-> 0]
  /\ cbs = setupSystemCallbacks
  /\ eng = [gameState |-> START, isRunning |-> FALSE, poops |-> <<>>]
  /\ objs \in [1..PoolInitialSize -> {Forget(destroy(newPoop(0, 0, REGULAR, v))) : v \in FallSpeeds}]
  /\ pool = [pool |-> [k \in 1..PoolInitialSize |-> k], maxSize |-> PoolMaxSize]
  /\ ui = [screen |-> "splash", stopTimers |-> 0, frames |-> 0, startTimers |-> <<>>]
  /\ baby = newBaby(2)
  /\ diaper = gameDiaper
  /\ pm = gamePerformanceManager
  /\ now = 1
  /\ g = NewSession
  /\ log = <<>>
  /\ srv = newServer
  /\ hsm = newHighScoreManager

\* the play button's click handler (its 100 ms timeout body)
PlayClick ==
  /\ ui.screen = "splash"
  /\ Commit(start([World EXCEPT !.ui.screen = "hud", !.g = NewSession]))

\* the restart button's click handler (its 100 ms timeout body)
\* The button is shown 400 ms after game over and the handler runs 100 ms
\* after the click; the restarts considered here are those made once the
\* fade intervals of the finished session have run out and the animation
\* frame requested before stop() has passed.
RestartClick ==
  /\ ui.screen = "gameover"
  /\ ui.frames = 0
  /\ \A i \in 1..Len(objs) : objs[i].intervals = 0
  /\ Commit(start(resetGame([World EXCEPT !.ui.screen = "hud", !.g = NewSession])))

\* the timeout set by showGameOver
GameOverShown ==
  /\ ui.stopTimers > 0
  /\ Commit(stop([World EXCEPT !.ui.screen = "gameover", !.ui.stopTimers = @ - 1]))

\* one animation frame: gameLoop -> update
Tick ==
  /\ eng.isRunning
  /\ ui.frames > 0
  /\ ss.score <= MaxScore
  /\ \E deltaTime \in DeltaTimes, diaperX \in DiaperXs, bob \in DiaperBobs :
       \E shot \in {<<>>} \cup
                   {<<t, x, v>> : t \in PoopType, x \in BabyXs, v \in FallSpeeds} :
          /\ shot # <<>> => g.spawned < MaxSpawns
          /\ LET frame(w) == /\ \A i \in 1..Len(w.objs) : w.objs[i].intervals <= MaxIntervals
                              /\ Commit(w)
             IN frame(update(World, deltaTime, shot, diaperX,
                             SceneBottom + DiaperYOffset + bob))

\* The callbacks of one fade interval (started by Poop.triggerCatchAnimation)
\* that fall between two animation frames: one every FadeIntervalMs, for a
\* frame time of DeltaTimes.  Callbacks commute with every handler but the
\* frames, so the run between two frames is taken as one step.  Nothing
\* orders this step against the frames: timers and frames may both be late.
FadeInterval ==
  \E id \in 1..Len(objs) :
    /\ objs[id].intervals > 0
    /\ \E deltaTime \in DeltaTimes :
         Commit([World EXCEPT !.objs[id] = fadeCallbacks(@, deltaTime \div FadeIntervalMs)])

\* the animation frame after stop(): gameLoop returns at once and requests
\* no further frame
LastFrame ==
  /\ ~eng.isRunning
  /\ ui.frames > 0
  /\ Commit([World EXCEPT !.ui.frames = 0])

Next == PlayClick \/ RestartClick \/ GameOverShown \/ Tick \/ FadeInterval \/ LastFrame

Spec == Init /\ [][Next]_vars

-----------------------------------------------------------------------------
(* GameStateManager on its own, driven through its public methods by a     *)
(* client that has registered an observer for every event                   *)

observerCallbacks ==
  [exit |-> [s \in GameState |-> <<"observer">>],
   enter |-> [s \in GameState |-> <<"observer">>],
   change |-> [s \in GameState |-> <<"observer">>],
   reset |-> <<"observer">>,
   gameOver |-> <<>>,
   scoreUpdate |-> <<>>,
   missUpdate |-> <<>>]

InitGSM ==
  /\ ss = [score |-> 0, misses |-> 0, consecutiveMisses |-> 0, maxMisses |-> DefaultMaxMisses]
  /\ gsm = [currentState |-> START, previousState |-> START, isTransitioning |-> FALSE,
            gameTime |-> 0, startTime |-> 0]
  /\ cbs = observerCallbacks
  /\ eng = [gameState |-> START, isRunning |-> FALSE, poops |-> <<>>]
  /\ objs = <<>>
  /\ pool = [pool |-> <<>>, maxSize |-> PoolMaxSize]
  /\ ui = [screen |-> "splash", stopTimers |-> 0, frames |-> 0, startTimers |-> <<>>]
  /\ baby = newBaby(2)
  /\ diaper = gameDiaper
  /\ pm = gamePerformanceManager
  /\ now = 1
  /\ g = NewSession
  /\ log = <<>>
  /\ srv = newServer
  /\ hsm = newHighScoreManager

StartGame == Commit(startGame(World))

EndGame == Commit(endGame(World))

ResetGame == Commit(resetGame(World))

ForceTransition == \E newState \in GameState : Commit(forceTransition(World, newState))

\* time passes between two calls
ClockAdvance ==
  /\ now < MaxClock
  /\ now' = now + 1
  /\ UNCHANGED <<ss, gsm, cbs, eng, objs, pool, ui, baby, diaper, pm, g, log, srv, hsm>>

NextGSM == StartGame \/ EndGame \/ ResetGame \/ ForceTransition \/ ClockAdvance

SpecGSM == InitGSM /\ [][NextGSM]_vars

\* The same client with callbacks that call back into the manager or throw:
\* one of the three callback kinds carries a special callback in front of an
\* observer, for every state.
SpecialCallbacks == {"client.startGame", "client.endGame", "client.resetGame", "client.throws"}

reentrantCallbacks(kind, cb) ==
  [exit |-> [s \in GameState |-> IF kind = "exit" THEN <<cb, "observer">> ELSE <<"observer">>],
   enter |-> [s \in GameState |-> IF kind = "enter" THEN <<cb, "observer">> ELSE <<"observer">>],
   change |-> [s \in GameState |-> IF kind = "change" THEN <<cb, "observer">> ELSE <<"observer">>],
   reset |-> <<"client.throws", "resetObserverA", "resetObserverB">>,
   gameOver |-> <<>>,
   scoreUpdate |-> <<>>,
   missUpdate |-> <<>>]

InitReentrant ==
  /\ ss = [score |-> 0, misses |-> 0, consecutiveMisses |-> 0, maxMisses |-> DefaultMaxMisses]
  /\ gsm = [currentState |-> START, previousState |-> START, isTransitioning |-> FALSE,
            gameTime |-> 0, startTime |-> 0]
  /\ cbs \in {reentrantCallbacks(kind, cb) : kind \in {"exit", "enter", "change"},
                                              cb \in SpecialCallbacks}
  /\ eng = [gameState |-> START, isRunning |-> FALSE, poops |-> <<>>]
  /\ objs = <<>>
  /\ pool = [pool |-> <<>>, maxSize |-> PoolMaxSize]
  /\ ui = [screen |-> "splash", stopTimers |-> 0, frames |-> 0, startTimers |-> <<>>]
  /\ baby = newBaby(2)
  /\ diaper = gameDiaper
  /\ pm = gamePerformanceManager
  /\ now = 1
  /\ g = NewSession
  /\ log = <<>>
  /\ srv = newServer
  /\ hsm = newHighScoreManager

SpecReentrant == InitReentrant /\ [][NextGSM]_vars

-----------------------------------------------------------------------------
(* ScoreSystem on its own, called by a client whose observers may throw:    *)
(* one of the three observer lists carries a throwing observer in front of  *)
(* an ordinary one                                                          *)

scoreObservers(kind) ==
  [exit |-> [s \in GameState |-> <<>>],
   enter |-> [s \in GameState |-> <<>>],
   change |-> [s \in GameState |-> <<>>],
   reset |-> <<>>,
   gameOver |-> IF kind = "gameOver" THEN <<"client.throws", "observer">> ELSE <<"observer">>,
   scoreUpdate |-> IF kind = "scoreUpdate" THEN <<"client.throws", "observer">>
                   ELSE <<"observer">>,
   missUpdate |-> IF kind = "missUpdate" THEN <<"client.throws", "observer">>
                  ELSE <<"observer">>]

InitSS ==
  /\ ss = [score |-> 0, misses |-> 0, consecutiveMisses |-> 0, maxMisses |-> DefaultMaxMisses]
  /\ gsm = [currentState |-> START, previousState |-> START, isTransitioning |-> FALSE,
            gameTime |-> 0, startTime |-> 0]
  /\ cbs \in {scoreObservers(kind) : kind \in {"gameOver", "scoreUpdate", "missUpdate"}}
  /\ eng = [gameState |-> START, isRunning |-> FALSE, poops |-> <<>>]
  /\ objs = <<>>
  /\ pool = [pool |-> <<>>, maxSize |-> PoolMaxSize]
  /\ ui = [screen |-> "splash", stopTimers |-> 0, frames |-> 0, startTimers |-> <<>>]
  /\ baby = newBaby(2)
  /\ diaper = gameDiaper
  /\ pm = gamePerformanceManager
  /\ now = 1
  /\ g = NewSession
  /\ log = <<>>
  /\ srv = newServer
  /\ hsm = newHighScoreManager

\* ghost: how the call ended for the caller
Returned(name, w) ==
  Note([w EXCEPT !.thrown = FALSE],
       [op |-> "returned", name |-> name, thrown |-> w.thrown,
        pre |-> ss, post |-> w.ss, fired |-> w.g.goFired - g.goFired])

AddScore ==
  /\ ss.score <= MaxScore
  /\ g.goFired < MaxSpawns
  /\ \E poopType \in PoopType : Commit(Returned("addScore", addScore(World, poopType)))

AddMiss ==
  /\ ss.misses < MaxSpawns
  /\ g.goFired < MaxSpawns
  /\ Commit(Returned("addMiss", addMiss(World)))

Reset == Commit(Returned("reset", resetScore([World EXCEPT !.g = NewSession])))

NextSS == AddScore \/ AddMiss \/ Reset

SpecSS == InitSS /\ [][NextSS]_vars

-----------------------------------------------------------------------------
(* PoopPool on its own, with a small maxSize: a client takes projectiles,    *)
(* lets them fall, catches them, lets them fade, destroys them and clears   *)
(* the pool.  Pooled instances keep every field of their previous life.     *)

\* <<x, type, speed>>: the position and type requested by the client and the
\* fall speed drawn by reset during the same call
PoolRequests == {<<0, REGULAR, 175>>, <<60, FANCY, 200>>, <<0, BOOB, 200>>}
PoolSpawnY == SceneTop - BabyYOffset - ShootYOffset

InitPool ==
  /\ ss = [score |-> 0, misses |-> 0, consecutiveMisses |-> 0, maxMisses |-> DefaultMaxMisses]
  /\ gsm = [currentState |-> START, previousState |-> START, isTransitioning |-> FALSE,
            gameTime |-> 0, startTime |-> 0]
  /\ cbs = [observerCallbacks EXCEPT !.reset = <<>>]
  /\ eng = [gameState |-> START, isRunning |-> FALSE, poops |-> <<>>]
  /\ \E initialSize \in 0..PoolInitialSize :
       /\ initialSize <= MaxPoolCap
       /\ objs = [k \in 1..initialSize |-> Forget(destroy(newPoop(0, 0, REGULAR, BaseSpeed)))]
       /\ pool = [pool |-> [k \in 1..initialSize |-> k], maxSize |-> MaxPoolCap]
  /\ ui = [screen |-> "hud", stopTimers |-> 0, frames |-> 0, startTimers |-> <<>>]
  /\ baby = newBaby(2)
  /\ diaper = gameDiaper
  /\ pm = gamePerformanceManager
  /\ now = 1
  /\ g = NewSession
  /\ log = <<>>
  /\ srv = newServer
  /\ hsm = newHighScoreManager

\* poopPool.getPoop(x, y, type)
GetPoop ==
  /\ \/ Len(objs) < MaxObjects
     \/ \E k \in 1..Len(pool.pool) : ~objs[pool.pool[k]].isActive
  /\ \E r \in PoolRequests :
       Store(getPoop(World, r[1], PoolSpawnY, r[2], r[3]))

\* the holder's first frame with a projectile: poop.update(deltaTime)
HolderUpdate ==
  \E id \in 1..Len(objs) :
    /\ objs[id].isActive /\ objs[id].y = PoolSpawnY
    /\ Store([World EXCEPT !.objs[id] = updatePoop(@, 900)])

\* the holder catches the projectile: poop.triggerCatchAnimation()
HolderCatch ==
  \E id \in 1..Len(objs) :
    /\ objs[id].isActive /\ objs[id].intervals = 0
    /\ Store([World EXCEPT !.objs[id] = triggerCatchAnimation(@)])

\* the 50 ms fade callbacks of one instance during a frame
HolderFade ==
  \E id \in 1..Len(objs) :
    /\ objs[id].intervals > 0
    /\ Store([World EXCEPT !.objs[id] = fadeCallbacks(@, 900 \div FadeIntervalMs)])

\* the holder gives the projectile up: poop.destroy()
HolderDestroy ==
  \E id \in 1..Len(objs) :
    /\ objs[id].isActive
    /\ Store([World EXCEPT !.objs[id] = destroy(@)])

\* poopPool.clear()
Clear == Store(clear(World))

NextPool == GetPoop \/ HolderUpdate \/ HolderCatch \/ HolderFade \/ HolderDestroy \/ Clear

SpecPool == InitPool /\ [][NextPool]_vars

-----------------------------------------------------------------------------
(* One projectile on its own: its holder lets it fall, catches it, lets it  *)
(* fade, destroys it any number of times and resets it for another life.    *)


InitEntity ==
  /\ ss = [score |-> 0, misses |-> 0, consecutiveMisses |-> 0, maxMisses |-> DefaultMaxMisses]
  /\ gsm = [currentState |-> START, previousState |-> START, isTransitioning |-> FALSE,
            gameTime |-> 0, startTime |-> 0]
  /\ cbs = [observerCallbacks EXCEPT !.reset = <<>>]
  /\ eng = [gameState |-> START, isRunning |-> FALSE, poops |-> <<>>]
  /\ \E r \in PoolRequests : objs = <<newPoop(r[1], PoolSpawnY, r[2], r[3])>>
  /\ pool = [pool |-> <<>>, maxSize |-> PoolMaxSize]
  /\ ui = [screen |-> "hud", stopTimers |-> 0, frames |-> 0, startTimers |-> <<>>]
  /\ baby = newBaby(2)
  /\ diaper = gameDiaper
  /\ pm = gamePerformanceManager
  /\ now = 1
  /\ g = NewSession
  /\ log = <<>>
  /\ srv = newServer
  /\ hsm = newHighScoreManager

\* entity.update(deltaTime), once in a life
EntityUpdate ==
  /\ objs[1].y = PoolSpawnY
  /\ Keep([World EXCEPT !.objs[1] = updatePoop(@, 900)])

\* poop.triggerCatchAnimation()
EntityCatch ==
  /\ objs[1].isActive /\ objs[1].intervals = 0
  /\ Keep([World EXCEPT !.objs[1] = triggerCatchAnimation(@)])

\* the 50 ms fade callbacks during a frame
EntityFade ==
  /\ objs[1].intervals > 0
  /\ objs[1].disposed < MaxDestroys
  /\ Keep([World EXCEPT !.objs[1] = fadeCallbacks(@, 900 \div FadeIntervalMs)])

\* entity.destroy(), on an active or an inactive entity
EntityDestroy ==
  /\ objs[1].disposed < MaxDestroys
  /\ Keep(Note([World EXCEPT !.objs[1] = destroy(@)],
               [op |-> "destroy", before |-> objs[1], after |-> destroy(objs[1])]))

\* poop.reset(scene, x, y, type, screenBottom) on the inactive entity
EntityReset ==
  /\ ~objs[1].isActive
  /\ \E r \in PoolRequests :
       Keep([World EXCEPT !.objs[1] = resetPoop(@, r[1], PoolSpawnY, r[2], r[3])])

SpecEntity ==
  InitEntity /\ [][EntityUpdate \/ EntityCatch \/ EntityFade \/ EntityDestroy \/ EntityReset]_vars

-----------------------------------------------------------------------------
(* The collision test on its own: a diaper and one projectile placed around *)
(* the distances at which their boxes touch                                  *)

CollisionOffsets ==
  [x |-> {0 - 56, 0 - 55, 0 - 54, 0, 54, 55, 56}, y |-> {0 - 36, 0 - 35, 0 - 34, 0, 34, 35, 36}]

InitCollision ==
  /\ ss = [score |-> 0, misses |-> 0, consecutiveMisses |-> 0, maxMisses |-> DefaultMaxMisses]
  /\ gsm = [currentState |-> PLAY, previousState |-> START, isTransitioning |-> FALSE,
            gameTime |-> 0, startTime |-> 1]
  /\ cbs = [observerCallbacks EXCEPT !.reset = <<>>]
  /\ eng = [gameState |-> PLAY, isRunning |-> TRUE, poops |-> <<1>>]
  /\ \E dx \in CollisionOffsets.x, dy \in CollisionOffsets.y, poopActive \in BOOLEAN :
       objs = <<[newPoop(gameDiaper.x + dx, gameDiaper.y + dy, REGULAR, BaseSpeed)
                   EXCEPT !.isActive = poopActive]>>
  /\ pool = [pool |-> <<1>>, maxSize |-> PoolMaxSize]
  /\ ui = [screen |-> "hud", stopTimers |-> 0, frames |-> 0, startTimers |-> <<>>]
  /\ baby = newBaby(2)
  /\ \E diaperActive \in BOOLEAN : diaper = [gameDiaper EXCEPT !.isActive = diaperActive]
  /\ pm = gamePerformanceManager
  /\ now = 1
  /\ g = NewSession
  /\ log = <<>>
  /\ srv = newServer
  /\ hsm = newHighScoreManager

\* collisionSystem.checkDiaperPoopCollision(diaper, poop) and
\* collisionSystem.checkDiaperPoopCollisions(diaper, poops)
CheckCollision ==
  /\ log = <<>>
  /\ Keep(Note(World, [op |-> "checkDiaperPoopCollision", diaper |-> diaper, poop |-> objs[1],
                       collides |-> checkDiaperPoopCollision(diaper, objs[1]),
                       first |-> checkDiaperPoopCollisions(World, diaper.x, diaper.y)]))

SpecCollision == InitCollision /\ [][CheckCollision]_vars

-----------------------------------------------------------------------------
(* PerformanceManager on its own: the game loop feeds it frame times of a   *)
(* loaded and of an idle device while its clock advances; the load changes  *)
(* after 30 or 60 equal frame times                                         *)

FrameTimes == {10, 50}   \* ms per frame: 100 FPS and 20 FPS

InitPerf ==
  /\ ss = [score |-> 0, misses |-> 0, consecutiveMisses |-> 0, maxMisses |-> DefaultMaxMisses]
  /\ gsm = [currentState |-> START, previousState |-> START, isTransitioning |-> FALSE,
            gameTime |-> 0, startTime |-> 0]
  /\ cbs = [observerCallbacks EXCEPT !.reset = <<>>]
  /\ eng = [gameState |-> START, isRunning |-> TRUE, poops |-> <<>>]
  /\ objs = <<>>
  /\ pool = [pool |-> <<>>, maxSize |-> PoolMaxSize]
  /\ ui = [screen |-> "hud", stopTimers |-> 0, frames |-> 0, startTimers |-> <<>>]
  /\ baby = newBaby(2)
  /\ diaper = gameDiaper
  /\ \E device \in {<<DeviceCapability.LOW, 200>>, <<DeviceCapability.MEDIUM, 200>>,
                     <<DeviceCapability.LOW, 40>>} :
       pm = newPerformanceManager(device[1], device[2])
  /\ now = 1
  /\ g = NewSession
  /\ log = <<>>
  /\ srv = newServer
  /\ hsm = newHighScoreManager

\* performanceManager.updateMetrics(frameTime)
SteadyLoad(h) ==
  /\ Len(h) \in {MinHistoryLength, MaxHistoryLength}
  /\ \A k \in 1..Len(h) : h[k] = h[1]

UpdateMetrics ==
  \E frameTime \in FrameTimes :
    /\ IF pm.frameTimeHistory = <<>> THEN TRUE
       ELSE IF pm.frameTimeHistory[Len(pm.frameTimeHistory)] = frameTime THEN TRUE
       ELSE SteadyLoad(pm.frameTimeHistory)
    /\ Commit(updateMetrics(World, frameTime))

\* half a cooldown passes on performance.now()
TimePasses ==
  /\ now < MaxPerfSteps * (QualityAdjustmentCooldown \div 2)
  /\ now' = now + QualityAdjustmentCooldown \div 2
  /\ log' = <<>>
  /\ UNCHANGED <<ss, gsm, cbs, eng, objs, pool, ui, baby, diaper, pm, g, srv, hsm>>

SpecPerf == InitPerf /\ [][UpdateMetrics \/ TimePasses]_vars

-----------------------------------------------------------------------------
(* The baby on its own: updates with frame times from none to 40 seconds    *)
(* and resets                                                               *)

BabyDeltaTimes == {0, 5000, 15000, 40000}
RandomHalves == {1, 2}   \* twice the factor 0.5 + Math.random()

InitBaby ==
  /\ ss = [score |-> 0, misses |-> 0, consecutiveMisses |-> 0, maxMisses |-> DefaultMaxMisses]
  /\ gsm = [currentState |-> PLAY, previousState |-> START, isTransitioning |-> FALSE,
            gameTime |-> 0, startTime |-> 1]
  /\ cbs = [observerCallbacks EXCEPT !.reset = <<>>]
  /\ eng = [gameState |-> PLAY, isRunning |-> TRUE, poops |-> <<>>]
  /\ objs = <<>>
  /\ pool = [pool |-> <<>>, maxSize |-> PoolMaxSize]
  /\ ui = [screen |-> "hud", stopTimers |-> 0, frames |-> 0, startTimers |-> <<>>]
  /\ \E halves \in RandomHalves : baby = newBaby(halves)
  /\ diaper = gameDiaper
  /\ pm = gamePerformanceManager
  /\ now = 1
  /\ g = NewSession
  /\ log = <<>>
  /\ srv = newServer
  /\ hsm = newHighScoreManager

\* baby.update(deltaTime)
BabyUpdate ==
  /\ baby.gameTime < MaxPeriods * DifficultyPeriod
  /\ \E deltaTime \in BabyDeltaTimes, halves \in RandomHalves :
       Keep(Note([World EXCEPT !.baby = babyUpdate(@, deltaTime, halves).baby],
                 [op |-> "babyUpdate", deltaTime |-> deltaTime, before |-> baby,
                  shoots |-> babyUpdate(baby, deltaTime, halves).shoots]))

\* baby.reset()
BabyReset ==
  \E halves \in RandomHalves : Keep([World EXCEPT !.baby = babyReset(@, halves)])

SpecBaby == InitBaby /\ [][BabyUpdate \/ BabyReset]_vars

-----------------------------------------------------------------------------
(* The type of the next projectile, drawn at some score                     *)

Scores == {0, 50, 99, 100, 199, 200, 250, 299, 300, 301, 1000, 100000}

InitType ==
  /\ \E score \in Scores :
       ss = [score |-> score, misses |-> 0, consecutiveMisses |-> 0, maxMisses |-> DefaultMaxMisses]
  /\ gsm = [currentState |-> PLAY, previousState |-> START, isTransitioning |-> FALSE,
            gameTime |-> 0, startTime |-> 1]
  /\ cbs = [observerCallbacks EXCEPT !.reset = <<>>]
  /\ eng = [gameState |-> PLAY, isRunning |-> TRUE, poops |-> <<>>]
  /\ objs = <<>>
  /\ pool = [pool |-> <<>>, maxSize |-> PoolMaxSize]
  /\ ui = [screen |-> "hud", stopTimers |-> 0, frames |-> 0, startTimers |-> <<>>]
  /\ baby = newBaby(2)
  /\ diaper = gameDiaper
  /\ pm = gamePerformanceManager
  /\ now = 1
  /\ g = NewSession
  /\ log = <<>>
  /\ srv = newServer
  /\ hsm = newHighScoreManager

\* Poop.createRandomType(this.scoreSystem.getScore())
CreateRandomType ==
  \E random \in 0..99 :
    Keep(Note(World, [op |-> "createRandomType", score |-> ss.score, random |-> random,
                      type |-> createRandomType(ss.score, random)]))

SpecType == InitType /\ [][CreateRandomType]_vars

-----------------------------------------------------------------------------
(* The diaper on its own: targets from touch and keyboard input, changes of *)
(* its bounds, and updates with short and long frame times                  *)

TargetXs == {0 - 1000, 0 - 30, 10, 400}
MovementBounds == {<<SceneLeft + DiaperMargin, SceneRight - DiaperMargin>>, <<0 - 100, 100>>, <<50, 200>>}
DiaperDeltaTimes == {0, 250, 1000}

InitDiaper ==
  /\ ss = [score |-> 0, misses |-> 0, consecutiveMisses |-> 0, maxMisses |-> DefaultMaxMisses]
  /\ gsm = [currentState |-> PLAY, previousState |-> START, isTransitioning |-> FALSE,
            gameTime |-> 0, startTime |-> 1]
  /\ cbs = [observerCallbacks EXCEPT !.reset = <<>>]
  /\ eng = [gameState |-> PLAY, isRunning |-> TRUE, poops |-> <<>>]
  /\ objs = <<>>
  /\ pool = [pool |-> <<>>, maxSize |-> PoolMaxSize]
  /\ ui = [screen |-> "hud", stopTimers |-> 0, frames |-> 0, startTimers |-> <<>>]
  /\ baby = newBaby(2)
  /\ diaper = gameDiaper
  /\ pm = gamePerformanceManager
  /\ now = 1
  /\ g = NewSession
  /\ log = <<>>
  /\ srv = newServer
  /\ hsm = newHighScoreManager

DiaperCall(d, e) == Keep(Note([World EXCEPT !.diaper = d], e))

SetTargetX ==
  \E x \in TargetXs :
    DiaperCall(setTargetX(diaper, x), [op |-> "setTargetX", x |-> x, before |-> diaper])

MoveLeft == DiaperCall(moveLeft(diaper), [op |-> "moveLeft", before |-> diaper])

MoveRight == DiaperCall(moveRight(diaper), [op |-> "moveRight", before |-> diaper])

SetBounds ==
  \E b \in MovementBounds :
    DiaperCall(setBounds(diaper, b[1], b[2]), [op |-> "setBounds", before |-> diaper])

DiaperUpdate ==
  \E deltaTime \in DiaperDeltaTimes :
    DiaperCall(diaperUpdate(diaper, deltaTime),
               [op |-> "diaperUpdate", deltaTime |-> deltaTime, before |-> diaper])

SpecDiaper ==
  InitDiaper /\ [][SetTargetX \/ MoveLeft \/ MoveRight \/ SetBounds \/ DiaperUpdate]_vars

-----------------------------------------------------------------------------
(* A crowded scene on a slow device. The state is one that 212 seconds of   *)
(* play lead to: the baby shoots at its shortest interval (500 ms, timer    *)
(* 250 ms), the last ten projectiles were lethal ones shot 250 ms apart at  *)
(* the lowest fall speed and are still above the bottom of the scene, the   *)
(* frames took 50 ms, and the performance manager of a LOW device has       *)
(* reduced the particle count and the pixel ratio to their floors, the last *)
(* time 4950 ms ago. From there the game loop runs frames of 50 or 250 ms.  *)

LowestSpeed == BaseSpeed - 25

InitBudget ==
  /\ ss = [score |-> 0, misses |-> 0, consecutiveMisses |-> 0, maxMisses |-> DefaultMaxMisses]
  /\ gsm = [currentState |-> PLAY, previousState |-> START, isTransitioning |-> FALSE,
            gameTime |-> 0, startTime |-> 1]
  /\ cbs = setupSystemCallbacks
  /\ eng = [gameState |-> PLAY, isRunning |-> TRUE, poops |-> [k \in 1..10 |-> k]]
  /\ objs = [k \in 1..10 |->
               newPoop(0, PoolSpawnY - (LowestSpeed * (200 + 250 * (10 - k))) \div 1000,
                       BOOB, LowestSpeed)]
  /\ pool = [pool |-> [k \in 1..10 |-> k], maxSize |-> PoolMaxSize]
  /\ ui = [screen |-> "hud", stopTimers |-> 0, frames |-> 1, startTimers |-> <<>>]
  /\ baby = [newBaby(2) EXCEPT !.gameTime = 212000, !.lastShootRateUpdate = 14,
                               !.shootInterval = MinShootInterval, !.shootTimer = 50]
  /\ diaper = gameDiaper
  /\ pm = [newPerformanceManager(DeviceCapability.LOW, 100) EXCEPT
             !.qualitySettings.particleCount = 5,
             !.qualitySettings.pixelRatio = 50,
             !.frameTimeHistory = [k \in 1..MaxHistoryLength |-> 50],
             !.lastQualityAdjustment = 212001 - 4950]
  /\ now = 212001
  /\ g = NewSession
  /\ log = <<>>
  /\ srv = newServer
  /\ hsm = newHighScoreManager

\* one frame of gameLoop: update(deltaTime), in which the baby shoots when
\* its timer runs out, then performanceManager.updateMetrics(deltaTime)
Frame ==
  /\ eng.isRunning
  /\ ui.frames > 0
  /\ now < 212001 + MaxBudgetTime
  /\ \E deltaTime \in {50, 250}, random \in {0, 20, 90}, halves \in RandomHalves,
        diaperX \in DiaperXs :
       LET playing == gsm.currentState = PLAY
           shot == IF playing /\ babyUpdate(baby, deltaTime, halves).shoots
                   THEN <<createRandomType(ss.score, random), 0, LowestSpeed>>
                   ELSE <<>>
           frame(w) == Commit(gameLoop(w, deltaTime, shot, diaperX,
                                       SceneBottom + DiaperYOffset))
       IN frame([World EXCEPT !.now = now + deltaTime,
                              !.ui.frames = @ - 1,
                              !.baby = IF playing THEN babyUpdate(@, deltaTime, halves).baby
                                       ELSE @])

SpecBudget == InitBudget /\ [][Frame \/ FadeInterval]_vars

-----------------------------------------------------------------------------
(* Startup in some browser: the engine's constructor asks for the            *)
(* PerformanceManager                                                         *)

Browsers ==
  [userAgent : {"desktop", "phone", "missing"},
   screenPixels : {153600, 1049088, 2073600},
   devicePixelRatio : {0, 200},
   hardwareConcurrency : {0, 2, 8},
   deviceMemory : {0, 2, 8},
   canvas : {"webgl", "none", "throws"}]

InitStartup ==
  /\ ss = [score |-> 0, misses |-> 0, consecutiveMisses |-> 0, maxMisses |-> DefaultMaxMisses]
  /\ gsm = [currentState |-> START, previousState |-> START, isTransitioning |-> FALSE,
            gameTime |-> 0, startTime |-> 0]
  /\ cbs = [observerCallbacks EXCEPT !.reset = <<>>]
  /\ eng = [gameState |-> START, isRunning |-> FALSE, poops |-> <<>>]
  /\ objs = <<>>
  /\ pool = [pool |-> <<>>, maxSize |-> PoolMaxSize]
  /\ ui = [screen |-> "splash", stopTimers |-> 0, frames |-> 0, startTimers |-> <<>>]
  /\ baby = newBaby(2)
  /\ diaper = gameDiaper
  /\ pm = <<>>
  /\ now = 1
  /\ g = NewSession
  /\ log = <<>>
  /\ srv = newServer
  /\ hsm = newHighScoreManager

\* this.performanceManager = PerformanceManager.getInstance() in the
\* constructor of the engine, which no try block encloses
ConstructEngine ==
  \E browser \in Browsers :
    LET done(w) == Keep(Note([w EXCEPT !.thrown = FALSE],
                             [op |-> "getInstance", browser |-> browser,
                              existed |-> pm # <<>>, thrown |-> w.thrown]))
    IN done(getInstance(World, browser))

SpecStartup == InitStartup /\ [][ConstructEngine]_vars

-----------------------------------------------------------------------------
(* The game loop with the start buttons as the page has them: a click sets  *)
(* a 100 ms timeout whose body starts the engine, and the button stays on   *)
(* the screen until then, so it can be clicked again. startTimers holds the *)
(* pending timeout bodies. An animation frame runs every pending gameLoop   *)
(* callback: the first with the frame time, the others with none.           *)

\* click on the play button
ClickPlay ==
  /\ ui.screen = "splash"
  /\ Len(ui.startTimers) < MaxClicks
  /\ Commit([World EXCEPT !.ui.startTimers = Append(@, "play")])

\* click on the restart button
ClickRestart ==
  /\ ui.screen = "gameover"
  /\ Len(ui.startTimers) < MaxClicks
  /\ Commit([World EXCEPT !.ui.startTimers = Append(@, "restart")])

\* the timeout body of a click: showGameHud(), for a restart
\* gameEngine.resetGame(), then gameEngine.start()
StartTimeout ==
  /\ ui.startTimers # <<>>
  /\ \A i \in 1..Len(objs) : objs[i].intervals = 0
  /\ LET begin(w) == Commit(start(IF Head(ui.startTimers) = "restart" THEN resetGame(w) ELSE w))
     IN begin([World EXCEPT !.ui.screen = "hud", !.ui.startTimers = Tail(@),
                            !.g = NewSession])

RECURSIVE gameLoops(_, _, _, _)
gameLoops(w, callbacks, deltaTime, shot) ==
  IF callbacks = 0 THEN w
  ELSE gameLoops(gameLoop(w, deltaTime, shot, 0, SceneBottom + DiaperYOffset),
                 callbacks - 1, 0, <<>>)

AnimationFrame ==
  /\ ui.frames > 0
  /\ Len(pm.frameTimeHistory) < MaxLoopFrames
  /\ \E shot \in {<<>>, <<BOOB, 0, BaseSpeed>>} :
       /\ shot # <<>> => g.spawned < MaxSpawns
       /\ Commit(gameLoops([World EXCEPT !.ui.frames = 0], ui.frames, 900, shot))

SpecLoop ==
  Init /\ [][ClickPlay \/ ClickRestart \/ StartTimeout \/ GameOverShown
              \/ AnimationFrame \/ FadeInterval]_vars

-----------------------------------------------------------------------------
(* The score server under requests that overlap. Every await of the handler
   is a point where another handler may run; a redis call takes effect at
   one instant between its call and the handler's resumption. Redis calls
   do not fail here. *)

\* score and gameTime of a request body; the first and the last are rejected
Submissions == {<<0 - 1, 60000>>, <<0, 60000>>, <<30, 60000>>, <<50, 60000>>, <<20000, 1>>}

\* router.post('/api/save-score'): a request arrives
SaveScoreRequest ==
  /\ Len(srv.requests) < MaxRequests
  /\ \E providedUsername \in {"", "bob"}, redditUsername \in {"", "alice"}, body \in Submissions :
       Commit(saveScore(World, providedUsername, redditUsername, body[1], body[2]))

\* the awaited call of one handler returns
Resume ==
  \E i \in 1..Len(srv.requests) :
    /\ srv.requests[i].pending # "done"
    /\ Commit(resume(World, i))

SpecServer == Init /\ [][SaveScoreRequest \/ Resume]_vars

-----------------------------------------------------------------------------
(* HighScoreManager driven on its own: the game runs, ends and is restarted
   while calls of saveCurrentScore wait for the server *)

ApiOutcomes == {"success", "unsuccessful", "invalid", "network error"}

\* HighScoreManager.initialize
Initialize ==
  /\ ~hsm.isInitialized
  /\ Commit(initialize(World))

\* a call of the public saveCurrentScore
SaveCurrentScore ==
  /\ Len(hsm.calls) < MaxCalls
  /\ Commit(saveCurrentScore(World))

\* the pending await of one call ends
ResumeSave ==
  \E i \in 1..Len(hsm.calls), outcome \in ApiOutcomes :
    Commit(resumeSave(World, i, outcome))

\* the callback registered with onStateChange(GameState.PLAY)
HandleGameStart == Commit(handleGameStart(World))

\* the callback registered with onReset
HandleGameReset == Commit(handleGameReset(World))

SpecHSM ==
  Init /\ [][Initialize \/ SaveCurrentScore \/ ResumeSave \/ HandleGameStart
              \/ HandleGameReset]_vars

-----------------------------------------------------------------------------
(* Properties *)

Calls(op) == {i \in 1..Len(log) : log[i].op = op}

NonLethal == {REGULAR, FANCY}

\* C1: ScoreSystem.addScore for a non-lethal type adds exactly 10 (regular)
\* or 50 (fancy) to score, sets consecutiveMisses to 0, leaves the total of
\* misses unchanged and fires no game-over, whatever the counters were.
C1_NonLethalCatch ==
  \A i \in Calls("addScore") :
    log[i].type \in NonLethal =>
      /\ log[i].post.score =
           log[i].pre.score + (IF log[i].type = REGULAR THEN 10 ELSE 50)
      /\ log[i].ret = (IF log[i].type = REGULAR THEN 10 ELSE 50)
      /\ log[i].post.consecutiveMisses = 0
      /\ log[i].post.misses = log[i].pre.misses
      /\ log[i].fired = 0

\* a fancy projectile caught after a miss, with points already on the board
C1_Witness ==
  \E i \in Calls("addScore") :
    /\ log[i].type = FANCY
    /\ log[i].pre.consecutiveMisses = 1
    /\ log[i].pre.score = 10
    /\ log[i].post.score = 60

\* C2: a lethal projectile caught during PLAY adds 0 points and the game
\* state is GAME_OVER when the tick ends, for every value of
\* consecutiveMisses.
C2_LethalCatch ==
  \A i \in Calls("addScore") :
    log[i].type = BOOB =>
      /\ log[i].post.score = log[i].pre.score
      /\ log[i].ret = 0
      /\ ss.score = log[i].pre.score
      /\ gsm.currentState = GAME_OVER

\* lethal catches with consecutiveMisses 0 and 1 are both reached; this is
\* the one with no miss before it
C2_Witness ==
  \E i \in Calls("addScore") :
    /\ log[i].type = BOOB
    /\ log[i].pre.consecutiveMisses = 0
    /\ log[i].pre.score = 10
    /\ gsm.previousState = PLAY

C3_WitnessSameTick ==
  /\ Cardinality(Calls("miss")) = 2
  /\ g.hist = <<"miss", "miss">>
  /\ g.goMiss = 1
  /\ gsm.currentState = GAME_OVER

\* C4: a projectile has at most one outcome: addScore is called at most once
\* for it, and a projectile that was caught is never counted as a miss.
C4_OneOutcome ==
  /\ \A id \in 1..Len(objs) : objs[id].catches <= 1
  /\ \A i \in Calls("miss") : log[i].caught = 0

\* C5: consecutiveMisses is between 0 and maxMisses in every reachable state.
C5_ConsecutiveBounded ==
  ss.consecutiveMisses >= 0 /\ ss.consecutiveMisses <= ss.maxMisses

\* C6: in one play session the game-over observers of the ScoreSystem are
\* invoked exactly once when the miss limit is reached, however many misses
\* are processed after that.
C6_GameOverOnce ==
  g.goMiss > 0 => g.goFired = 1

\* C7: addMiss adds 1 to misses and to consecutiveMisses, leaves score as it
\* is, and returns true and fires game-over exactly when the resulting
\* consecutiveMisses has reached maxMisses.
C7_AddMiss ==
  \A i \in Calls("addMiss") :
    /\ log[i].post.misses = log[i].pre.misses + 1
    /\ log[i].post.consecutiveMisses = log[i].pre.consecutiveMisses + 1
    /\ log[i].post.score = log[i].pre.score
    /\ log[i].ret = (log[i].post.consecutiveMisses >= log[i].post.maxMisses)
    /\ log[i].fired = (IF log[i].ret THEN 1 ELSE 0)

\* the miss that reaches the limit, with points on the board
C7_Witness ==
  \E i \in Calls("addMiss") :
    /\ log[i].ret = TRUE
    /\ log[i].post.consecutiveMisses = DefaultMaxMisses
    /\ log[i].pre.score = 10

\* C8: a lethal projectile that falls off-screen adds no miss, does not
\* raise consecutiveMisses and triggers no game-over; low-value and
\* high-value projectiles are the ones that count as misses.
C8_LethalOffScreen ==
  \A i \in Calls("miss") :
    IF log[i].type = BOOB
    THEN /\ log[i].post.misses = log[i].pre.misses
         /\ log[i].post.consecutiveMisses <= log[i].pre.consecutiveMisses
         /\ log[i].fired = 0
    ELSE log[i].post.misses = log[i].pre.misses + 1

\* a lethal projectile falls off-screen one miss short of the limit
C8_Witness ==
  \E i \in Calls("miss") :
    /\ log[i].type = BOOB
    /\ log[i].pre.consecutiveMisses = 1
    /\ gsm.currentState = PLAY

\* C9: when a lethal projectile falls off-screen, consecutiveMisses becomes
\* 0 while score and misses are unchanged.
C9_LethalMissResets ==
  \A i \in Calls("miss") :
    log[i].type = BOOB =>
      /\ log[i].post.consecutiveMisses = 0
      /\ log[i].post.score = log[i].pre.score
      /\ log[i].post.misses = log[i].pre.misses

\* C10: a non-forced transitionTo whose (current, target) pair is not in the
\* transition table is rejected: the state stays as it was and no exit,
\* enter or change callback runs.
C10_InvalidRejected ==
  \A i \in Calls("transitionTo") :
    (~log[i].force /\ ~log[i].nested /\ ~isValidTransition(log[i].from, log[i].to)) =>
      /\ ~log[i].accepted
      /\ gsm.currentState = log[i].from
      /\ \A j \in Calls("callback") : j < i

\* the exit, enter and change callbacks invoked after log entry i
StateCallbacksAfter(i) ==
  {j \in Calls("callback") : j > i /\ log[j].kind \in {"exit", "enter", "change"}}

\* the transition requested at log entry i ran to its end: every callback of
\* its three lists was invoked, the manager is in its target state and is no
\* longer transitioning
OuterCompleted(i) ==
  /\ gsm.currentState = log[i].to
  /\ ~gsm.isTransitioning
  /\ Cardinality(StateCallbacksAfter(i)) =
       Len(cbs.exit[log[i].from]) + Len(cbs.enter[log[i].to]) + Len(cbs.change[log[i].to])

\* C11: a non-forced transitionTo requested from inside a state callback,
\* while another transition is in progress, is rejected: it runs no callback
\* and the outer transition ends in its own target state.
C11_NestedRejected ==
  \A i \in Calls("transitionTo") :
    (log[i].nested /\ ~log[i].force) =>
      /\ ~log[i].accepted
      /\ \A o \in Calls("transitionTo") :
           (~log[o].nested /\ log[o].accepted) => OuterCompleted(o)

\* startGame() succeeds from START while one of its callbacks asks for GAME_OVER
C11_Witness ==
  \E o, i \in Calls("transitionTo") :
    /\ ~log[o].nested /\ log[o].accepted /\ log[o].from = START /\ log[o].to = PLAY
    /\ log[i].nested /\ ~log[i].force /\ log[i].to = GAME_OVER
    /\ gsm.currentState = PLAY

\* C12: when resetGame() returns, every reset observer has been invoked
\* exactly once and the state is START with game time 0, also when it was
\* called from inside a state callback.
C12_ResetReachesStart ==
  /\ \A i \in Calls("resetCallbacks") : log[i].ran = cbs.reset
  /\ \A i \in Calls("resetGame") : log[i].state = START /\ log[i].gameTime = 0

\* C13: if an exit, enter or change callback throws during transitionTo, the
\* remaining callbacks are still invoked, the state becomes the target and
\* isTransitioning is false afterwards.
C13_ThrowingCallback ==
  \A o \in Calls("transitionTo") :
    (/\ ~log[o].nested
     /\ log[o].accepted
     /\ \E j \in StateCallbacksAfter(o) : log[j].cb = "client.throws") =>
      OuterCompleted(o)

\* a callback of a transition from PLAY to GAME_OVER has thrown
C13_Witness ==
  \E o \in Calls("transitionTo") :
    /\ ~log[o].nested /\ log[o].accepted /\ log[o].from = PLAY /\ log[o].to = GAME_OVER
    /\ \E j \in StateCallbacksAfter(o) :
         log[j].cb = "client.throws" /\ j + 1 \in StateCallbacksAfter(o)
    /\ gsm.currentState = GAME_OVER

\* C14: if a score-update, miss-update or game-over observer of the
\* ScoreSystem throws, the other observers of that event are still invoked,
\* the exception does not leave addScore / addMiss, and addMiss still makes
\* its miss-limit check and game-over notification.
C14_ObserverThrows ==
  /\ \A i \in Calls("returned") :
       /\ ~log[i].thrown
       /\ (log[i].name = "addMiss"
             /\ log[i].post.consecutiveMisses >= log[i].post.maxMisses) => log[i].fired = 1
  /\ \A j \in Calls("callback") :
       log[j].cb = "client.throws" =>
         /\ j + 1 \in Calls("callback")
         /\ log[j + 1].kind = log[j].kind

\* C15: once the state is GAME_OVER, score, misses and consecutiveMisses do
\* not change until the next reset or start, the rest of the tick that
\* triggered game-over included.
C15_FrozenAfterGameOver ==
  /\ \A i \in Calls("miss") : log[i].state = GAME_OVER => log[i].post = log[i].pre
  /\ \A i \in Calls("addScore") :
       \A o \in Calls("transitionTo") :
         (o < i /\ log[o].accepted /\ log[o].to = GAME_OVER /\ log[i].type \in NonLethal)
           => log[i].post = log[i].pre

\* C16: whenever the state is START, score, misses and consecutiveMisses are
\* zero, in particular right after resetGame() is called from GAME_OVER.
C16_StartMeansZero ==
  /\ gsm.currentState = START =>
       (ss.score = 0 /\ ss.misses = 0 /\ ss.consecutiveMisses = 0)
  /\ \A i \in Calls("resetGame") :
       log[i].state = START =>
         (log[i].ss.score = 0 /\ log[i].ss.misses = 0 /\ log[i].ss.consecutiveMisses = 0)

\* C17: in GAME_OVER getGameTime() is constant as the clock advances and is
\* the clock at the entry into GAME_OVER minus the clock at the preceding
\* entry into PLAY; each entry into PLAY restarts elapsed time from 0; in
\* START it is 0.
C17_GameTime ==
  /\ gsm.currentState = START => getGameTime(World) = 0
  /\ gsm.currentState = PLAY => getGameTime(World) = now - g.playAt
  /\ (gsm.currentState = GAME_OVER /\ g.playAt > 0) =>
       getGameTime(World) = g.overAt - g.playAt

\* the clock has moved on since a game that took one unit of time ended
C17_Witness ==
  /\ gsm.currentState = GAME_OVER
  /\ g.playAt > 0
  /\ g.overAt > g.playAt
  /\ now > g.overAt
  /\ getGameTime(World) = g.overAt - g.playAt


\* C18: neither ObjectPool.get() nor PoopPool.getPoop() returns an instance
\* that was active immediately before the call: an instance a holder still
\* has active is never handed out again.
C18_NeverHandsOutActive ==
  /\ \A i \in Calls("get") : ~log[i].wasActive
  /\ \A i \in Calls("getPoop") : ~log[i].before.isActive \/ log[i - 1].created

\* a pooled instance is reused while another pooled instance is still active
C18_Witness ==
  \E i \in Calls("get") :
    /\ ~log[i].created /\ ~log[i].wasActive
    /\ \E k \in 1..Len(pool.pool) :
         /\ pool.pool[k] < log[i].id
         /\ objs[pool.pool[k]].isActive

\* C19: the projectile returned by getPoop(x, y, type), reused or newly
\* built, is active, has the requested type, that type's points, position
\* (x, y), a freshly drawn downward speed, full scale and full opacity,
\* whatever the instance held in its previous life.
C19_FullyReset ==
  \A i \in Calls("getPoop") :
    /\ objs[log[i].id] = log[i].after
    /\ objs[log[i].id].isActive
    /\ objs[log[i].id].type = log[i].type
    /\ objs[log[i].id].points = typePoints(log[i].type)
    /\ objs[log[i].id].x = log[i].x
    /\ objs[log[i].id].y = log[i].y
    /\ objs[log[i].id].fallSpeed = log[i].speed
    /\ objs[log[i].id].fallSpeed > 0
    /\ objs[log[i].id].scale = 100
    /\ objs[log[i].id].fades = 0

\* a reused instance whose previous life differed from the request in type,
\* points, position, speed, scale and opacity
C19_Witness ==
  \E i \in Calls("getPoop") :
    /\ ~log[i - 1].created
    /\ ~log[i].before.isActive
    /\ log[i].before.type # log[i].type
    /\ log[i].before.points # typePoints(log[i].type)
    /\ log[i].before.x # log[i].x
    /\ log[i].before.y # log[i].y
    /\ log[i].before.fallSpeed # log[i].speed
    /\ log[i].before.scale # 100
    /\ log[i].before.fades # 0

\* C20: a pool built with initialSize <= maxSize retains at most maxSize
\* instances after any get() and clear() calls; get() never deactivates an
\* active instance, and when no pooled instance is inactive and the pool is
\* at the cap it returns a new active instance that is not retained.
C20_CapNotExceeded ==
  /\ Len(pool.pool) <= pool.maxSize
  /\ \A i \in Calls("get") :
       /\ log[i].deactivated = {}
       /\ (log[i].noneFree /\ log[i].atCap) =>
            /\ log[i].created
            /\ ~log[i].retained
            /\ ~log[i].wasActive
            /\ objs[log[i].id].isActive

\* get() at the cap with every pooled instance active
C20_Witness ==
  \E i \in Calls("get") :
    /\ log[i].noneFree /\ log[i].atCap /\ log[i].created /\ ~log[i].retained
    /\ Len(pool.pool) = pool.maxSize
    /\ \A k \in 1..Len(pool.pool) : objs[pool.pool[k]].isActive


\* C21: destroy() is idempotent: a second call leaves the entity as the
\* first left it (inactive), and over any number of destroy() calls the
\* geometry and the material are released exactly once.
C21_DestroyIdempotent ==
  /\ objs[1].disposed <= 1
  /\ \A i \in Calls("destroy") :
       /\ ~log[i].after.isActive
       /\ ~log[i].before.isActive => log[i].after = log[i].before


\* C22: checkDiaperPoopCollision returns true exactly when both entities are
\* active and |dx| < 55 and |dy| < 35, so boxes that only touch do not
\* collide; checkDiaperPoopCollisions finds the projectile exactly then; the
\* test leaves both entities as they were.
C22_CollisionTest ==
  \A i \in Calls("checkDiaperPoopCollision") :
    /\ log[i].collides <=>
         /\ log[i].diaper.isActive /\ log[i].poop.isActive
         /\ Abs(log[i].diaper.x - log[i].poop.x) < 55
         /\ Abs(log[i].diaper.y - log[i].poop.y) < 35
    /\ log[i].collides <=> log[i].first = 1
    /\ diaper = log[i].diaper /\ objs[1] = log[i].poop

\* two active boxes that only touch along a vertical edge: no collision
C22_Witness ==
  \E i \in Calls("checkDiaperPoopCollision") :
    /\ log[i].diaper.isActive /\ log[i].poop.isActive
    /\ Abs(log[i].diaper.x - log[i].poop.x) = 55
    /\ log[i].diaper.y = log[i].poop.y
    /\ ~log[i].collides


\* C28: two automatic adjustments made by updateMetrics are at least 5000 ms
\* apart, also under sustained low FPS, and none is made before 30 frame
\* times have been recorded.
C28_Cooldown ==
  \A i \in Calls("adjust") :
    /\ log[i].samples >= 30
    /\ log[i].earlier > 0 => log[i].at - log[i].previousAt >= 5000

\* a second downgrade exactly one cooldown after the previous adjustment
C28_Witness ==
  \E i \in Calls("adjust") :
    /\ log[i].kind = "reduce" /\ log[i].earlier > 0
    /\ log[i].at - log[i].previousAt = 5000

QualityFields ==
  {"pixelRatio", "particleCount", "shadowQuality", "antialiasing", "textureQuality",
   "maxEntities", "targetFPS"}

ChangedFields(e) == {f \in QualityFields : e.before[f] # e.after[f]}

\* C29: an automatic downgrade or upgrade changes one field of the quality
\* settings and no other (an upgrade always one, a downgrade none only when
\* nothing is left to reduce); the subscriber is notified once by an
\* adjustment that changed a field and not at all by one that changed none.
C29_OneField ==
  \A i \in Calls("reduceQuality") \cup Calls("increaseQuality") :
    /\ Cardinality(ChangedFields(log[i])) <= 1
    /\ Cardinality(Calls("qualityChange")) = Cardinality(ChangedFields(log[i]))
    /\ log[i].op = "increaseQuality" => Cardinality(ChangedFields(log[i])) = 1
    /\ (log[i].op = "reduceQuality" /\ ChangedFields(log[i]) = {}) =>
         /\ log[i].before.particleCount <= 5 /\ log[i].before.pixelRatio <= 50
         /\ ~log[i].before.antialiasing /\ log[i].before.textureQuality <= 50
         /\ log[i].before.maxEntities <= 10
    /\ pm.qualitySettings = log[i].after

\* a downgrade with nothing left to reduce: no field changes, no notification
C29_Witness ==
  \E i \in Calls("reduceQuality") :
    ChangedFields(log[i]) = {} /\ Calls("qualityChange") = {}

\* the dimensions in the order in which reduceQuality tries them
QualityOrder == <<"particleCount", "pixelRatio", "antialiasing", "textureQuality", "maxEntities">>

Reducible(q) ==
  {k \in 1..5 : CASE k = 1 -> q.particleCount > 5
                  [] k = 2 -> q.pixelRatio > 50
                  [] k = 3 -> q.antialiasing
                  [] k = 4 -> q.textureQuality > 50
                  [] k = 5 -> q.maxEntities > 10}

Raisable(q, initial) ==
  {k \in 1..5 : CASE k = 1 -> q.particleCount < initial.particleCount
                  [] k = 2 -> q.pixelRatio < initial.pixelRatio
                  [] k = 3 -> ~q.antialiasing /\ initial.antialiasing
                  [] k = 4 -> q.textureQuality < initial.textureQuality
                  [] k = 5 -> q.maxEntities < initial.maxEntities}

DowngradesInOrder ==
  \A i \in Calls("reduceQuality") :
    \A k \in Reducible(log[i].before) :
      (\A j \in Reducible(log[i].before) : k <= j) => ChangedFields(log[i]) = {QualityOrder[k]}

C24_ShootInterval ==
  /\ baby.shootInterval >= 500
  /\ \A i \in Calls("babyUpdate") :
       /\ baby.shootInterval <= log[i].before.shootInterval
       /\ baby.shootInterval \in
            {log[i].before.shootInterval,
             IF (log[i].before.shootInterval * 9) \div 10 < 500 THEN 500
             ELSE (log[i].before.shootInterval * 9) \div 10}
       /\ baby.gameTime \div 15000 = log[i].before.gameTime \div 15000
            => baby.shootInterval = log[i].before.shootInterval

\* an update within a window whose boundary has already reduced the interval
C24_Witness ==
  \E i \in Calls("babyUpdate") :
    /\ log[i].deltaTime > 0
    /\ log[i].before.gameTime >= 15000
    /\ baby.gameTime \div 15000 = log[i].before.gameTime \div 15000
    /\ baby.shootInterval = log[i].before.shootInterval
    /\ baby.shootInterval < 2000 /\ baby.shootInterval > 500


\* the number of draws, out of 100, that give a fancy projectile at a score
FancyShare(score) == Cardinality({r \in 0..99 : createRandomType(score, r) = FANCY})

\* C25: for every score S >= 0 and every draw r in [0,1), createRandomType
\* returns lethal iff r < 0.15, otherwise high-value iff
\* r < 0.15 + min(0.40, 0.25 + floor(S/100) * 0.05), otherwise low-value; the
\* high-value share is non-decreasing in S and is 0.40 for every S >= 300.
C25_TypeDistribution ==
  /\ \A i \in Calls("createRandomType") :
       LET r == log[i].random
           S == log[i].score
           raised == 25 + (S \div 100) * 5
           share == IF raised > 40 THEN 40 ELSE raised
       IN /\ log[i].type = BOOB <=> r < 15
          /\ log[i].type = FANCY <=> (r >= 15 /\ r < 15 + share)
          /\ log[i].type = REGULAR <=> r >= 15 + share
  /\ \A S1, S2 \in Scores : S1 <= S2 => FancyShare(S1) <= FancyShare(S2)
  /\ \A S \in Scores : S >= 300 => FancyShare(S) = 40

\* a draw that gives a fancy projectile only because the score has raised
\* the share to its ceiling
C25_Witness ==
  \E i \in Calls("createRandomType") :
    /\ log[i].score >= 300
    /\ log[i].random = 54
    /\ log[i].type = FANCY


\* C26: after any sequence of setTargetX, moveLeft, moveRight, setBounds and
\* update calls on the diaper, bounds.left <= targetX <= bounds.right, and
\* after every update bounds.left <= position.x <= bounds.right, for any
\* supplied x: a value out of range is clamped.
C26_WithinBounds ==
  /\ diaper.bounds.left <= diaper.targetX /\ diaper.targetX <= diaper.bounds.right
  /\ \A i \in Calls("diaperUpdate") :
       diaper.bounds.left <= diaper.x /\ diaper.x <= diaper.bounds.right
  /\ \A i \in Calls("setTargetX") :
       diaper.targetX = IF log[i].x < diaper.bounds.left THEN diaper.bounds.left
                        ELSE IF log[i].x > diaper.bounds.right THEN diaper.bounds.right
                        ELSE log[i].x

\* a target beyond the right bound, supplied after the bounds were narrowed
\* around a diaper that stood outside them
C26_Witness ==
  \E i \in Calls("setTargetX") :
    /\ log[i].x > diaper.bounds.right
    /\ diaper.targetX = diaper.bounds.right
    /\ diaper.bounds.left = 50
    /\ diaper.x = 50

\* C27: with a fixed target inside the bounds, every update(dt) with dt >= 0
\* moves position.x toward the target without passing it: the sign of
\* targetX - position.x does not flip across an update, long frames included.
C27_NoOvershoot ==
  \A i \in Calls("diaperUpdate") :
    /\ log[i].before.x < log[i].before.targetX => diaper.x <= log[i].before.targetX
    /\ log[i].before.x > log[i].before.targetX => diaper.x >= log[i].before.targetX


\* C23: after every spawn the number of projectiles the engine tracks is at
\* most the current qualitySettings.maxEntities, also after the performance
\* manager has lowered maxEntities while projectiles were in flight.
C23_WithinBudget ==
  \A i \in Calls("spawn") : log[i].tracked <= log[i].maxEntities


\* a probed facility is missing or throws
DetectionFails(browser) ==
  \/ browser.userAgent = "missing"
  \/ browser.devicePixelRatio = 0
  \/ browser.hardwareConcurrency = 0
  \/ browser.deviceMemory = 0
  \/ browser.canvas # "webgl"

\* C31: if device detection fails (a probed facility is missing or throws),
\* the PerformanceManager is still constructed, with capability LOW and the
\* LOW quality settings: startup does not fail and no higher tier is chosen.
C31_FallsBackToLow ==
  \A i \in Calls("getInstance") :
    (~log[i].existed /\ DetectionFails(log[i].browser)) =>
      /\ ~log[i].thrown
      /\ pm # <<>>
      /\ pm.capability = DeviceCapability.LOW
      /\ pm.qualitySettings = getInitialQualitySettings(DeviceCapability.LOW, pm.devicePixelRatio)


\* every call of a comes before every call of b in the handler that ran last
Before(a, b) == \A i \in Calls(a), j \in Calls(b) : i < j

ScoreUpdates == {"addScore", "addMiss", "transitionTo"}

\* input, entity updates, collision detection, score and state-machine
\* updates, cleanup, in this order
UpdatePhases ==
  /\ Before("inputUpdate", "updateGameEntities")
  /\ Before("updateGameEntities", "checkCollisions")
  /\ Before("spawn", "checkCollisions")
  /\ \A op \in ScoreUpdates : Before("checkCollisions", op) /\ Before(op, "cleanupEntities")

\* C32: within every tick the phases run in the order input sampling, entity
\* updates, collision detection, score/state-machine updates, entity
\* cleanup, metrics recording, render: the metrics are recorded before the
\* frame is rendered.
C32_MetricsBeforeRender ==
  Calls("render") # {} =>
    /\ UpdatePhases
    /\ Before("cleanupEntities", "updateMetrics")
    /\ Before("updateMetrics", "render")
    /\ Calls("updateMetrics") # {}

\* C32 as the code has it: input sampling, entity updates, collision
\* detection, score/state-machine updates, entity cleanup, render, metrics
\* recording; cleanup runs after all score updates of the tick.
C32_RenderBeforeMetrics ==
  Calls("render") # {} =>
    /\ UpdatePhases
    /\ Before("cleanupEntities", "render")
    /\ Before("render", "updateMetrics")
    /\ Calls("updateMetrics") # {}

\* a frame in which the baby shot, a catch changed the state machine, and
\* the list was cleaned up before rendering
C32_Witness ==
  /\ Calls("spawn") # {}
  /\ Calls("transitionTo") # {}
  /\ Calls("cleanupEntities") # {}
  /\ \E i \in Calls("render"), j \in Calls("updateMetrics") : i < j


\* C33: in each play session the GAME_OVER state-change callback of the
\* engine (onGameOver) runs exactly once, although endGame() is requested
\* twice for the same event, by the ScoreSystem's game-over observer and by
\* the engine itself.
C33_GameOverShownOnce ==
  /\ g.shown <= 1
  /\ gsm.currentState = GAME_OVER => g.shown = 1
  /\ g.shown = 1 => gsm.currentState = GAME_OVER

\* a tick in which endGame() was requested at least twice and carried out once
C33_Witness ==
  /\ g.shown = 1
  /\ \E i, j \in Calls("transitionTo") :
       /\ i < j
       /\ log[i].to = GAME_OVER /\ log[i].accepted
       /\ log[j].to = GAME_OVER /\ ~log[j].accepted


\* C34: the engine's list of projectiles never holds the same pooled
\* instance twice: an instance that its fade timer has deactivated between
\* two ticks and that is still in the list is not handed out by the pool and
\* pushed again before cleanup has removed the old reference.
C34_NoDuplicates ==
  \A i, j \in 1..Len(eng.poops) : eng.poops[i] = eng.poops[j] => i = j


\* C35: a fade timer started in a previous life of a projectile never acts
\* on the instance after getPoop() has handed it out again: a projectile
\* that has not been caught in its present life has not been faded, so only
\* a catch, a miss, an eviction or a reset of that life can deactivate it.
C35_NoStaleFade ==
  \A id \in 1..Len(objs) :
    (objs[id].isActive /\ objs[id].catches = 0) => objs[id].fades = 0


\* C36: at most one game-loop chain runs at any time: under any sequence of
\* play and restart clicks, start(), stop() and pending animation-frame
\* callbacks, at most one gameLoop callback is pending and update() is
\* executed at most once per animation frame.
C36_OneLoop ==
  /\ ui.frames <= 1
  /\ Cardinality(Calls("inputUpdate")) <= 1


\* the settings of the device's tier as constructed
InitialSettings == getInitialQualitySettings(pm.capability, pm.devicePixelRatio)

\* C37: under automatic adjustment alone every quality dimension stays
\* within its range: particleCount between 5 and the tier's initial value,
\* pixelRatio between min(0.5, initial) and the initial value, maxEntities
\* between 10 and the initial value, and anti-aliasing is never enabled on a
\* tier whose initial settings have it disabled.
C37_WithinRange ==
  LET q == pm.qualitySettings
  IN /\ 5 <= q.particleCount /\ q.particleCount <= InitialSettings.particleCount
     /\ (IF InitialSettings.pixelRatio < 50 THEN InitialSettings.pixelRatio ELSE 50)
          <= q.pixelRatio
     /\ q.pixelRatio <= InitialSettings.pixelRatio
     /\ 10 <= q.maxEntities /\ q.maxEntities <= InitialSettings.maxEntities
     /\ ~InitialSettings.antialiasing => ~q.antialiasing

\* every dimension at its floor, and one raised again since
C37_Witness ==
  /\ pm.qualitySettings.maxEntities = 10
  /\ pm.qualitySettings.pixelRatio = 50
  /\ pm.qualitySettings.particleCount = InitialSettings.particleCount
  /\ InitialSettings.maxEntities > 10

\* every handler of /api/save-score has sent its response
AllResponded == \A i \in 1..Len(srv.requests) : srv.requests[i].pending = "done"

OnLeaderboard(username) ==
  \E k \in 1..Len(srv.leaderboard) : srv.leaderboard[k].username = username

\* C38: when two /api/save-score requests of different users are processed
\* concurrently and each is a new personal best, the stored leaderboard holds
\* both users' entries once both have completed; and the leaderboard always
\* holds at most one entry per username and at most 100 entries.
C38_BothEntriesKept ==
  /\ \A k1, k2 \in 1..Len(srv.leaderboard) :
        srv.leaderboard[k1].username = srv.leaderboard[k2].username => k1 = k2
  /\ Len(srv.leaderboard) <= LeaderboardSize
  /\ AllResponded =>
        \A j \in 1..Len(srv.requests) : \A i \in srv.requests[j].during :
          LET a == srv.requests[i]
              b == srv.requests[j]
          IN (/\ a.status = 200 /\ b.status = 200
              /\ a.isNewBest /\ b.isNewBest
              /\ a.username # b.username)
             => OnLeaderboard(a.username) /\ OnLeaderboard(b.username)

\* the positive scores of a user that the server has accepted
AcceptedScores(username) ==
  {srv.requests[i].score : i \in {k \in 1..Len(srv.requests) :
      /\ srv.requests[k].status = 200
      /\ srv.requests[k].username = username
      /\ srv.requests[k].score > 0}}

Maximum(S) == IF S = {} THEN 0 ELSE CHOOSE m \in S : \A n \in S : n <= m

\* C39: under every interleaving of a user's concurrent /api/save-score
\* requests the stored personal best of every user never decreases, and once
\* all requests have completed it is the greatest of the user's accepted
\* positive scores.
C39_BestIsMaximum ==
  /\ [][\A u \in Usernames : srv'.best[u] >= srv.best[u]]_vars
  /\ [](AllResponded => \A u \in Usernames : srv.best[u] = Maximum(AcceptedScores(u)))

\* C40: at most one submission started by saveCurrentScore is in flight at
\* any time, a call made while one waits for the server sending nothing, also
\* when the game is restarted or reset in the meantime; and
\* isSubmittingScore is false whenever none is in flight.
C40_OneSubmissionInFlight ==
  /\ Len(hsm.calls) <= 1
  /\ Len(hsm.calls) = 0 => ~hsm.isSubmittingScore

====
